---- MODULE Spec2Model ----
(***************************************************************************)
(* Ingestion engine of the Kadena indexer: the Archive Backfiller          *)
(* (processKeys) and the Tip Streamer (startStreaming / saveBlock), over    *)
(* one relational store with transactions, one sync-status cursor and the  *)
(* publisher queue.                                                         *)
(*                                                                         *)
(* Every await of the source is a suspension point and so an action        *)
(* boundary; code between two awaits runs atomically (single-threaded      *)
(* event loop).  Every awaited call inside a try block may reject.         *)
(* tx.rollback() is taken to complete.                                      *)
(***************************************************************************)
EXTENDS Integers, Sequences, FiniteSets, TLC

\* ------------------------------------------------------------------ bounds
NumKeys   == 2      \* objects under the prefix in the object store
MaxCalls  == 2      \* processKeys calls for the one (network, chainId, prefix)
MaxEvents == 2      \* BlockHeader events delivered by the stream
NumChains == 2      \* chains swept by startMissingBlocks (Array.from({length: 20}))
TipHeight == 2      \* the stable chain tip; heights below it can be indexed
SYNC_MIN_HEIGHT == 0                 \* getRequiredEnvNumber("SYNC_MIN_HEIGHT")
SYNC_FETCH_INTERVAL_IN_BLOCKS == 1   \* getRequiredEnvNumber("SYNC_FETCH_INTERVAL_IN_BLOCKS")
MaxErrors == 1      \* SyncError rows ever created
MaxStale  == 1      \* calls of earlier ticks still in flight when a tick starts
MaxRetryRows == 2   \* SyncError rows in the table when startRetryErrors is called
NumBalances == 3    \* rows of the Balances table, ids 1..NumBalances
MaxRuns   == 2      \* backfillGuards runs (startup, then the hourly timer)
BatchLimit == 2     \* rows per batch (limit = 1000 in backfillGuards)
CONCURRENCY_LIMIT == 1   \* concurrent fetches allowed (50 in the source)

\* ------------------------------------------------------------- input sets
Objects   == 1..NumKeys            \* keys, numeric order = lexicographic order
Hashes    == 1..NumKeys            \* block hashes
Calls     == 1..MaxCalls
Handlers  == 1..MaxEvents
PageSizes == {1, 2}                \* values of the maxKeys argument
NoLimit   == -1                    \* maxIterations undefined (argument omitted)
IterationLimits == {NoLimit, 0, 1} \* values of the maxIterations argument
NoKey     == 0                     \* startAfter undefined / no cursor key
Chains    == 0..(NumChains - 1)    \* chainId
RootPrefix == NumChains            \* the prefix that holds the objects of every chain
Heights   == SYNC_MIN_HEIGHT..(TipHeight - 1)

VARIABLES
  \* committed database state
  Blocks,                \* Block rows: [hash, by]; by = the transaction that wrote it
  PayloadRows,           \* Transaction/Event rows of a block: [hash, by]
  cursorKey,             \* SyncStatus.key of (network, chainId, prefix, SOURCE_S3)
  cursorBy,              \* history: the transaction that wrote cursorKey
  chainCursorKey,        \* per chain: SyncStatus.key of (network, chainId, prefix of the chain)
  StreamingErrors,       \* StreamingError rows in insertion order: [hash, chainId, by]
  \* publisher
  publishQueue,          \* DispatchInfo handed to addPublishEvents, in order
  \* open transactions
  txBlocks, txRows,      \* rows written inside a transaction, not yet committed
  txCursor,              \* cursor written inside a processKeys transaction: <<>> or <<key>>
  \* processKeys calls
  pkPc, pkMaxKeys, pkMaxIterations,
  startAfter, iterationCount, keys, pending, res, totalKeysProcessed,
  pkOutcome,
  listed,                \* history: every key a call has listed
  overlapped,            \* history: another call was in flight during this call
  \* tip streamer
  blocksAlreadyReceived, \* the Set<string> of startStreaming
  hPc, evHash, blockData, hOutcome,
  saveCalls,             \* history: saveBlock calls per hash since the last clear
  persistedAtCall        \* history: the hash was persisted when saveBlock was called

dbVars   == <<Blocks, PayloadRows, cursorKey, cursorBy, chainCursorKey, StreamingErrors>>
txVars   == <<txBlocks, txRows, txCursor>>
pkVars   == <<pkPc, pkMaxKeys, pkMaxIterations, startAfter, iterationCount, keys,
              pending, res, totalKeysProcessed, pkOutcome, listed, overlapped>>
strVars  == <<blocksAlreadyReceived, hPc, evHash, blockData, hOutcome, saveCalls,
              persistedAtCall>>
ingestVars == <<dbVars, publishQueue, txVars, pkVars, strVars>>

VARIABLES
  \* arguments of the processKeys calls
  pkPrefix               \* per call: the chainId and prefix arguments (one prefix per chain)

VARIABLES
  \* one call of a function of the API server or of saveBlock's return path
  fnName,                \* the function called, "none" before the call
  fnArgs,                \* its arguments
  fnResult               \* what it returned

VARIABLES
  \* gap filler
  isTriggered,           \* shutdownSignal.isTriggered
  dPc,                   \* position of startMissingBlocksDaemon
  cPc,                   \* per chain: the async callback of the tick awaited by the daemon
  fetches,               \* fetchHeadersWithRetry calls in flight: [chainId, fromHeight, toHeight, cur]
  staleQuery,            \* chains with a getNextMissingBlock in flight from an earlier tick
  missingHeights,        \* per chain: heights in [SYNC_MIN_HEIGHT, tip) with no Block row
  SyncErrors,            \* SyncError rows of source API: [id, chainId, fromHeight, toHeight]
  nextErrorId            \* the id sequence of the SyncError table

VARIABLES
  \* startRetryErrors
  rPc,                   \* position of startRetryErrors
  errors,                \* the rows returned by syncErrorService.getErrors
  errIdx,                \* index in errors of the row of the current loop iteration
  rOutcome,              \* history: per row id, how its fetchHeadersWithRetry ended
  rDeleted               \* history: ids whose syncErrorService.delete resolved

VARIABLES
  \* backfillGuards
  Guards,                \* committed Guard rows: [balanceId, run]
  gPc,                   \* per run: position of backfillGuards
  currentId,             \* per run: currentId
  rows,                  \* per run: ids of the Balances rows of the batch
  fetched,               \* per run: rows of the batch whose guard fetch has resolved
  txGuards,              \* per run: Guard rows inserted in the open transaction
  gOutcome,              \* per run: how the run ended
  limitQueue,            \* limitFetch: calls waiting, in order: <<run, balanceId>>
  limitActive,           \* limitFetch: getGuardsFromBalances calls in flight
  handed                 \* history: per run, the Balance ids handed to limitFetch, in order

VARIABLES
  \* POST /new-block
  reqPc, reqIp, reqBody, resStatus,
  validated,             \* history: dispatchInfoSchema.safeParseAsync was called
  published,             \* messages handed to pubsub.publish, in order
  awaited,               \* positions in published of the awaited publishes not yet settled
  \* validatePaginationParamsPlugin
  pvOperation,           \* the operation given to didResolveOperation
  pvResult               \* "accepted", or "rejected" when a GraphQLError was thrown

gapVars  == <<isTriggered, dPc, cPc, fetches, staleQuery>>
errVars  == <<SyncErrors, nextErrorId>>
retryVars == <<rPc, errors, errIdx, rOutcome, rDeleted>>
svcVars  == <<gapVars, missingHeights, errVars, retryVars>>
guardVars == <<Guards, gPc, currentId, rows, fetched, txGuards, gOutcome,
               limitQueue, limitActive, handed>>
webVars  == <<reqPc, reqIp, reqBody, resStatus, validated, published, awaited,
              pvOperation, pvResult>>
argVars  == <<pkPrefix>>
fnVars   == <<fnName, fnArgs, fnResult>>
auxVars  == <<svcVars, guardVars, webVars, argVars, fnVars>>
nonSvcVars == <<ingestVars, guardVars, webVars, argVars, fnVars>>
nonGuardVars == <<ingestVars, svcVars, webVars, argVars, fnVars>>
nonWebVars == <<ingestVars, svcVars, guardVars, argVars, fnVars>>
nonFnVars == <<ingestVars, svcVars, guardVars, webVars, argVars>>
vars     == <<ingestVars, auxVars>>

\* ---------------------------------------------------------------- helpers
PK(p) == <<"pk", p>>               \* the transaction of processKeys call p
SB(i) == <<"sb", i>>               \* the transaction of the saveBlock of event i
TxIds == {PK(p) : p \in Calls} \cup {SB(i) : i \in Handlers}
NoTx  == <<"none", 0>>             \* no transaction has written the cursor

HashOfKey(k) == k                  \* the block stored under object key k
ChainIdOf(h) == h % 2              \* header.chainId of the block with hash h

CommittedHashes == {r.hash : r \in Blocks}
\* hashes inserted by an open transaction other than t (the unique index makes
\* a second insert of the same hash wait for that transaction to end)
HeldByOther(t, h) == \E u \in TxIds \ {t} : h \in txBlocks[u]
CanInsert(t, h) == h \notin CommittedHashes /\ ~HeldByOther(t, h)

Min(S) == CHOOSE m \in S : \A x \in S : m <= x
Max(S) == CHOOSE m \in S : \A x \in S : m >= x

RECURSIVE SortedSeq(_)
SortedSeq(S) == IF S = {} THEN <<>> ELSE <<Min(S)>> \o SortedSeq(S \ {Min(S)})

RowsOf(t, hs) == {[hash |-> h, by |-> t] : h \in hs}

NullResult == [kind |-> "null"]
NoResult   == [kind |-> "none"]
DispatchInfo(h, t) == [kind |-> "info", hash |-> h, chainId |-> ChainIdOf(h), by |-> t]

\* the objects under a prefix: all of them, or those of the blocks of one chain
ObjectsUnder(prefix) ==
  IF prefix = RootPrefix THEN Objects
  ELSE {k \in Objects : ChainIdOf(HashOfKey(k)) = prefix}

\* the stored cursor key of the (network, chainId, prefix) of a call
StoredKey(prefix) == IF prefix = RootPrefix THEN cursorKey ELSE chainCursorKey[prefix]

\* listS3Objects(prefix, maxKeys, startAfter): the first maxKeys keys after
\* startAfter, in lexicographic order
ListS3Objects(prefix, maxKeys, after) ==
  LET all == SortedSeq({k \in ObjectsUnder(prefix) : k > after})
  IN  SubSeq(all, 1, IF maxKeys < Len(all) THEN maxKeys ELSE Len(all))

\* while (!isFinished && (!maxIterations || iterationCount < maxIterations))
\* (!maxIterations holds for undefined and for 0)
LoopCond(maxIterations, count) ==
  maxIterations = NoLimit \/ maxIterations = 0 \/ count < maxIterations

\* variant: the first key of the page instead of the last
FirstKey(ks) == ks[1]
\* keys[keys.length - 1]
LastKey(ks) == ks[Len(ks)]

\* res.filter((r) => r !== null), in the order of keys
RECURSIVE NonNull(_, _, _)
NonNull(ks, produced, t) ==
  IF ks = <<>> THEN <<>>
  ELSE (IF Head(ks) \in produced THEN <<DispatchInfo(HashOfKey(Head(ks)), t)>> ELSE <<>>)
       \o NonNull(Tail(ks), produced, t)

PkActive(p) == pkPc[p] \notin {"idle", "done"}

\* ------------------------------------------------------------------- Init
InitState ==
  /\ Blocks = {} /\ PayloadRows = {} /\ StreamingErrors = <<>>
  /\ cursorKey = NoKey /\ cursorBy = NoTx
  /\ chainCursorKey = [c \in Chains |-> NoKey]
  /\ publishQueue = <<>>
  /\ txBlocks = [t \in TxIds |-> {}]
  /\ txRows = [t \in TxIds |-> {}]
  /\ txCursor = [p \in Calls |-> <<>>]
  /\ pkPc = [p \in Calls |-> "idle"]
  /\ pkMaxKeys = [p \in Calls |-> 1]
  /\ pkMaxIterations = [p \in Calls |-> NoLimit]
  /\ startAfter = [p \in Calls |-> NoKey]
  /\ iterationCount = [p \in Calls |-> 0]
  /\ keys = [p \in Calls |-> <<>>]
  /\ pending = [p \in Calls |-> {}]
  /\ res = [p \in Calls |-> {}]
  /\ totalKeysProcessed = [p \in Calls |-> 0]
  /\ pkOutcome = [p \in Calls |-> "none"]
  /\ listed = [p \in Calls |-> {}]
  /\ overlapped = [p \in Calls |-> FALSE]
  /\ blocksAlreadyReceived = {}
  /\ hPc = [i \in Handlers |-> "idle"]
  /\ evHash = [i \in Handlers |-> 0]
  /\ blockData = [i \in Handlers |-> NoResult]
  /\ hOutcome = [i \in Handlers |-> "none"]
  /\ saveCalls = [h \in Hashes |-> 0]
  /\ persistedAtCall = [i \in Handlers |-> FALSE]
  /\ isTriggered = FALSE /\ dPc = "off"
  /\ cPc = [c \in Chains |-> "idle"]
  /\ fetches = {} /\ staleQuery = {}
  /\ missingHeights = [c \in Chains |-> {}]
  /\ SyncErrors = {} /\ nextErrorId = 1
  /\ rPc = "off" /\ errors = <<>> /\ errIdx = 0
  /\ rOutcome = [id \in 1..MaxRetryRows |-> "none"] /\ rDeleted = {}
  /\ Guards = {}
  /\ gPc = [r \in 1..MaxRuns |-> "off"]
  /\ currentId = [r \in 1..MaxRuns |-> 0]
  /\ rows = [r \in 1..MaxRuns |-> <<>>]
  /\ fetched = [r \in 1..MaxRuns |-> {}]
  /\ txGuards = [r \in 1..MaxRuns |-> {}]
  /\ gOutcome = [r \in 1..MaxRuns |-> "none"]
  /\ limitQueue = <<>> /\ limitActive = {}
  /\ handed = [r \in 1..MaxRuns |-> <<>>]
  /\ reqPc = "none" /\ reqIp = <<>> /\ reqBody = <<>> /\ resStatus = 0
  /\ validated = FALSE /\ published = <<>> /\ awaited = {}
  /\ pvOperation = <<>> /\ pvResult = "none"
  /\ fnName = "none" /\ fnArgs = <<>> /\ fnResult = <<>>

\* every processKeys call is given the same (network, chainId, prefix)
Init == InitState /\ pkPrefix = [p \in Calls |-> RootPrefix]

\* ============================================================ processKeys
\* processKeys(network, chainId, prefix, processKey, maxKeys, maxIterations):
\* the call and `await sequelize.transaction()`
PKBegin(p, mk, mi) ==
  /\ pkPc[p] = "idle"
  /\ \A q \in Calls : q < p => pkPc[q] # "idle"
  /\ pkPc' = [pkPc EXCEPT ![p] = "find"]
  /\ pkMaxKeys' = [pkMaxKeys EXCEPT ![p] = mk]
  /\ pkMaxIterations' = [pkMaxIterations EXCEPT ![p] = mi]
  /\ overlapped' = [q \in Calls |->
                      IF q = p THEN \E r \in Calls \ {p} : PkActive(r)
                      ELSE overlapped[q] \/ PkActive(q)]
  /\ UNCHANGED <<auxVars, dbVars, publishQueue, txVars, strVars, startAfter, iterationCount,
                 keys, pending, res, totalKeysProcessed, pkOutcome, listed>>

\* sequelize.transaction() rejects: outside the try, processKeys rejects
PKBeginFail(p) ==
  /\ pkPc[p] = "idle"
  /\ \A q \in Calls : q < p => pkPc[q] # "idle"
  /\ pkPc' = [pkPc EXCEPT ![p] = "done"]
  /\ pkOutcome' = [pkOutcome EXCEPT ![p] = "rejected"]
  /\ UNCHANGED <<auxVars, dbVars, publishQueue, txVars, strVars, pkMaxKeys, pkMaxIterations,
                 startAfter, iterationCount, keys, pending, res, totalKeysProcessed,
                 listed, overlapped>>

\* variant: startAfter left undefined whatever the stored cursor is
PKFindIgnoresCursor(p) ==
  /\ pkPc[p] = "find"
  /\ startAfter' = [startAfter EXCEPT ![p] = NoKey]
  /\ pkPc' = [pkPc EXCEPT ![p] = "list"]
  /\ UNCHANGED <<auxVars, dbVars, publishQueue, txVars, strVars, pkMaxKeys, pkMaxIterations,
                 iterationCount, keys, pending, res, totalKeysProcessed, pkOutcome,
                 listed, overlapped>>
\* lastSync = await syncStatusService.findWithPrefix(...); startAfter = lastSync?.key
PKFind(p) ==
  /\ pkPc[p] = "find"
  /\ startAfter' = [startAfter EXCEPT ![p] = StoredKey(pkPrefix[p])]
  /\ pkPc' = [pkPc EXCEPT ![p] = "list"]
  /\ UNCHANGED <<auxVars, dbVars, publishQueue, txVars, strVars, pkMaxKeys, pkMaxIterations,
                 iterationCount, keys, pending, res, totalKeysProcessed, pkOutcome,
                 listed, overlapped>>

\* keys = await listS3Objects(prefix, maxKeys, startAfter); an empty listing
\* sets isFinished and leaves the loop
PKList(p) ==
  /\ pkPc[p] = "list"
  /\ LET ks == ListS3Objects(pkPrefix[p], pkMaxKeys[p], startAfter[p])
     IN  /\ keys' = [keys EXCEPT ![p] = ks]
         /\ pending' = [pending EXCEPT ![p] = {ks[n] : n \in 1..Len(ks)}]
         /\ listed' = [listed EXCEPT ![p] = @ \cup {ks[n] : n \in 1..Len(ks)}]
         /\ pkPc' = [pkPc EXCEPT ![p] = IF Len(ks) > 0 THEN "page" ELSE "save"]
  /\ res' = [res EXCEPT ![p] = {}]
  /\ UNCHANGED <<auxVars, dbVars, publishQueue, txVars, strVars, pkMaxKeys, pkMaxIterations,
                 startAfter, iterationCount, totalKeysProcessed, pkOutcome, overlapped>>

\* the code after `await Promise.all(...)` of a page: addPublishEvents, the
\* counters, startAfter, and the loop test
PageDone(p, produced) ==
  /\ publishQueue' = publishQueue \o NonNull(keys[p], produced, PK(p))
  /\ totalKeysProcessed' = [totalKeysProcessed EXCEPT ![p] = @ + Len(keys[p])]
  /\ startAfter' = [startAfter EXCEPT ![p] = LastKey(keys[p])]
  /\ iterationCount' = [iterationCount EXCEPT ![p] = @ + 1]
  /\ pkPc' = [pkPc EXCEPT ![p] =
               IF LoopCond(pkMaxIterations[p], iterationCount[p] + 1)
               THEN "list" ELSE "save"]

\* one processKey(network, key, tx) of the page resolves; inserted = it wrote
\* the block of the key inside tx and resolved with its DispatchInfo, otherwise
\* the block was already persisted and it resolved with null.  When it is the
\* last one of the page, Promise.all resolves and the page is finished.
PKKeyResolved(p, k) ==
  /\ pkPc[p] = "page"
  /\ k \in pending[p]
  /\ LET h == HashOfKey(k)
         inserted == CanInsert(PK(p), h)
         produced == IF inserted THEN res[p] \cup {k} ELSE res[p]
     IN  /\ inserted \/ h \in CommittedHashes
         /\ txBlocks' = [txBlocks EXCEPT ![PK(p)] = IF inserted THEN @ \cup {h} ELSE @]
         /\ txRows' = [txRows EXCEPT ![PK(p)] = IF inserted THEN @ \cup {h} ELSE @]
         /\ res' = [res EXCEPT ![p] = produced]
         /\ pending' = [pending EXCEPT ![p] = @ \ {k}]
         /\ IF pending[p] = {k}
            THEN PageDone(p, produced)
            ELSE UNCHANGED <<publishQueue, totalKeysProcessed, startAfter,
                             iterationCount, pkPc>>
  /\ UNCHANGED <<auxVars, dbVars, txCursor, strVars, pkMaxKeys, pkMaxIterations, keys,
                 pkOutcome, listed, overlapped>>

\* variant: the cursor saved without tx, so written at once
PKSaveOutsideTx(p) ==
  /\ pkPc[p] = "save"
  /\ cursorKey' = startAfter[p]
  /\ cursorBy' = PK(p)
  /\ pkPc' = [pkPc EXCEPT ![p] = "commit"]
  /\ UNCHANGED <<auxVars, chainCursorKey, Blocks, PayloadRows, StreamingErrors, publishQueue, txVars, strVars,
                 pkMaxKeys, pkMaxIterations, startAfter, iterationCount, keys, pending,
                 res, totalKeysProcessed, pkOutcome, listed, overlapped>>
\* variant: the cursor saved with the last key this call processed, no key
\* when it processed none
PKSaveLastProcessedKey(p) ==
  /\ pkPc[p] = "save"
  /\ txCursor' = [txCursor EXCEPT ![p] =
                   IF iterationCount[p] = 0 THEN <<NoKey>> ELSE <<startAfter[p]>>]
  /\ pkPc' = [pkPc EXCEPT ![p] = "commit"]
  /\ UNCHANGED <<auxVars, dbVars, publishQueue, txBlocks, txRows, strVars, pkMaxKeys,
                 pkMaxIterations, startAfter, iterationCount, keys, pending, res,
                 totalKeysProcessed, pkOutcome, listed, overlapped>>
\* await syncStatusService.save({..., key: startAfter, ...}, tx)
PKSave(p) ==
  /\ pkPc[p] = "save"
  /\ txCursor' = [txCursor EXCEPT ![p] = <<startAfter[p]>>]
  /\ pkPc' = [pkPc EXCEPT ![p] = "commit"]
  /\ UNCHANGED <<auxVars, dbVars, publishQueue, txBlocks, txRows, strVars, pkMaxKeys,
                 pkMaxIterations, startAfter, iterationCount, keys, pending, res,
                 totalKeysProcessed, pkOutcome, listed, overlapped>>

\* await tx.commit()
PKCommit(p) ==
  /\ pkPc[p] = "commit"
  /\ Blocks' = Blocks \cup RowsOf(PK(p), txBlocks[PK(p)])
  /\ PayloadRows' = PayloadRows \cup RowsOf(PK(p), txRows[PK(p)])
  /\ IF txCursor[p] = <<>> THEN UNCHANGED <<cursorKey, cursorBy, chainCursorKey>>
     ELSE IF pkPrefix[p] = RootPrefix
     THEN cursorKey' = txCursor[p][1] /\ cursorBy' = PK(p) /\ UNCHANGED chainCursorKey
     ELSE /\ chainCursorKey' = [chainCursorKey EXCEPT ![pkPrefix[p]] = txCursor[p][1]]
          /\ UNCHANGED <<cursorKey, cursorBy>>
  /\ txBlocks' = [txBlocks EXCEPT ![PK(p)] = {}]
  /\ txRows' = [txRows EXCEPT ![PK(p)] = {}]
  /\ txCursor' = [txCursor EXCEPT ![p] = <<>>]
  /\ pkPc' = [pkPc EXCEPT ![p] = "done"]
  /\ pkOutcome' = [pkOutcome EXCEPT ![p] = "commit"]
  /\ UNCHANGED <<auxVars, StreamingErrors, publishQueue, strVars, pkMaxKeys, pkMaxIterations,
                 startAfter, iterationCount, keys, pending, res, totalKeysProcessed,
                 listed, overlapped>>

\* an awaited call inside the try rejects (findWithPrefix, listS3Objects, a
\* processKey of the page, save, commit): control moves to the catch block
PKThrow(p) ==
  /\ pkPc[p] \in {"find", "list", "page", "save", "commit"}
  /\ pkPc' = [pkPc EXCEPT ![p] = "rollback"]
  /\ UNCHANGED <<auxVars, dbVars, publishQueue, txVars, strVars, pkMaxKeys, pkMaxIterations,
                 startAfter, iterationCount, keys, pending, res, totalKeysProcessed,
                 pkOutcome, listed, overlapped>>

\* variant: the catch block committing instead of rolling back
PKRollbackCommits(p) ==
  /\ pkPc[p] = "rollback"
  /\ Blocks' = Blocks \cup RowsOf(PK(p), txBlocks[PK(p)])
  /\ PayloadRows' = PayloadRows \cup RowsOf(PK(p), txRows[PK(p)])
  /\ txBlocks' = [txBlocks EXCEPT ![PK(p)] = {}]
  /\ txRows' = [txRows EXCEPT ![PK(p)] = {}]
  /\ txCursor' = [txCursor EXCEPT ![p] = <<>>]
  /\ pending' = [pending EXCEPT ![p] = {}]
  /\ pkPc' = [pkPc EXCEPT ![p] = "done"]
  /\ pkOutcome' = [pkOutcome EXCEPT ![p] = "rollback"]
  /\ UNCHANGED <<auxVars, cursorKey, cursorBy, chainCursorKey, StreamingErrors, publishQueue, strVars, pkMaxKeys,
                 pkMaxIterations, startAfter, iterationCount, keys, res,
                 totalKeysProcessed, listed, overlapped>>
\* catch: await tx.rollback(); console.error(...)
PKRollback(p) ==
  /\ pkPc[p] = "rollback"
  /\ txBlocks' = [txBlocks EXCEPT ![PK(p)] = {}]
  /\ txRows' = [txRows EXCEPT ![PK(p)] = {}]
  /\ txCursor' = [txCursor EXCEPT ![p] = <<>>]
  /\ pending' = [pending EXCEPT ![p] = {}]
  /\ pkPc' = [pkPc EXCEPT ![p] = "done"]
  /\ pkOutcome' = [pkOutcome EXCEPT ![p] = "rollback"]
  /\ UNCHANGED <<auxVars, dbVars, publishQueue, strVars, pkMaxKeys, pkMaxIterations,
                 startAfter, iterationCount, keys, res, totalKeysProcessed,
                 listed, overlapped>>

\* the steps of processKeys call p
ArchiveStep(p) ==
  \/ \E mk \in PageSizes, mi \in IterationLimits : PKBegin(p, mk, mi)
  \/ PKBeginFail(p)
  \/ PKFind(p)
  \/ PKList(p)
  \/ \E k \in Objects : PKKeyResolved(p, k)
  \/ PKSave(p)
  \/ PKCommit(p)
  \/ PKThrow(p)
  \/ PKRollback(p)

ArchiveNext == \E p \in Calls : ArchiveStep(p)

SpecArchive == Init /\ [][ArchiveNext]_vars

\* ============================================================ tip streamer
\* variant: the listener without blocksAlreadyReceived.add
OnBlockHeaderNoAdd(i, h, valid) ==
  /\ hPc[i] = "idle"
  /\ \A j \in Handlers : j < i => hPc[j] # "idle"
  /\ evHash' = [evHash EXCEPT ![i] = h]
  /\ IF ~valid
     THEN /\ hPc' = [hPc EXCEPT ![i] = "done"]
          /\ hOutcome' = [hOutcome EXCEPT ![i] = "caught"]
          /\ UNCHANGED <<blocksAlreadyReceived, saveCalls, persistedAtCall>>
     ELSE IF h \in blocksAlreadyReceived
     THEN /\ hPc' = [hPc EXCEPT ![i] = "done"]
          /\ hOutcome' = [hOutcome EXCEPT ![i] = "dropped"]
          /\ UNCHANGED <<blocksAlreadyReceived, saveCalls, persistedAtCall>>
     ELSE /\ UNCHANGED blocksAlreadyReceived
          /\ saveCalls' = [saveCalls EXCEPT ![h] = @ + 1]
          /\ persistedAtCall' = [persistedAtCall EXCEPT ![i] = h \in CommittedHashes]
          /\ hPc' = [hPc EXCEPT ![i] = "begin"]
          /\ UNCHANGED hOutcome
  /\ UNCHANGED <<auxVars, dbVars, publishQueue, txVars, pkVars, blockData>>
\* The BlockHeader listener up to its first await: JSON.parse and
\* processPayload (valid = neither throws), the blocksAlreadyReceived test,
\* blocksAlreadyReceived.add, and the call of saveBlock up to
\* `await sequelize.transaction()`.
OnBlockHeader(i, h, valid) ==
  /\ hPc[i] = "idle"
  /\ \A j \in Handlers : j < i => hPc[j] # "idle"
  /\ evHash' = [evHash EXCEPT ![i] = h]
  /\ IF ~valid
     THEN /\ hPc' = [hPc EXCEPT ![i] = "done"]
          /\ hOutcome' = [hOutcome EXCEPT ![i] = "caught"]
          /\ UNCHANGED <<blocksAlreadyReceived, saveCalls, persistedAtCall>>
     ELSE IF h \in blocksAlreadyReceived
     THEN /\ hPc' = [hPc EXCEPT ![i] = "done"]
          /\ hOutcome' = [hOutcome EXCEPT ![i] = "dropped"]
          /\ UNCHANGED <<blocksAlreadyReceived, saveCalls, persistedAtCall>>
     ELSE /\ blocksAlreadyReceived' = blocksAlreadyReceived \cup {h}
          /\ saveCalls' = [saveCalls EXCEPT ![h] = @ + 1]
          /\ persistedAtCall' = [persistedAtCall EXCEPT ![i] = h \in CommittedHashes]
          /\ hPc' = [hPc EXCEPT ![i] = "begin"]
          /\ UNCHANGED hOutcome
  /\ UNCHANGED <<auxVars, dbVars, publishQueue, txVars, pkVars, blockData>>

\* saveBlock: tx = await sequelize.transaction()
SBBegin(i) ==
  /\ hPc[i] = "begin"
  /\ hPc' = [hPc EXCEPT ![i] = "create"]
  /\ UNCHANGED <<auxVars, dbVars, publishQueue, txVars, pkVars, blocksAlreadyReceived,
                 evHash, blockData, hOutcome, saveCalls, persistedAtCall>>

\* sequelize.transaction() rejects: it is outside the try of saveBlock, so
\* saveBlock rejects and the listener's catch logs the error
SBBeginFail(i) ==
  /\ hPc[i] = "begin"
  /\ hPc' = [hPc EXCEPT ![i] = "done"]
  /\ hOutcome' = [hOutcome EXCEPT ![i] = "caught"]
  /\ UNCHANGED <<auxVars, dbVars, publishQueue, txVars, pkVars, blocksAlreadyReceived,
                 evHash, blockData, saveCalls, persistedAtCall>>

\* createdBlock = await Block.create(blockAttribute, {transaction: tx})
SBBlockCreate(i) ==
  /\ hPc[i] = "create"
  /\ CanInsert(SB(i), evHash[i])
  /\ txBlocks' = [txBlocks EXCEPT ![SB(i)] = @ \cup {evHash[i]}]
  /\ hPc' = [hPc EXCEPT ![i] = "payload"]
  /\ UNCHANGED <<auxVars, dbVars, publishQueue, txRows, txCursor, pkVars,
                 blocksAlreadyReceived, evHash, blockData, hOutcome, saveCalls, persistedAtCall>>

\* eventsCreated = await processPayloadKey(createdBlock, payloadData, tx)
SBProcessPayloadKey(i) ==
  /\ hPc[i] = "payload"
  /\ txRows' = [txRows EXCEPT ![SB(i)] = @ \cup {evHash[i]}]
  /\ hPc' = [hPc EXCEPT ![i] = "commit"]
  /\ UNCHANGED <<auxVars, dbVars, publishQueue, txBlocks, txCursor, pkVars,
                 blocksAlreadyReceived, evHash, blockData, hOutcome, saveCalls, persistedAtCall>>

\* await tx.commit(); return {hash, chainId, height, ...}; the listener finds
\* blockData !== null and ends
SBCommit(i) ==
  /\ hPc[i] = "commit"
  /\ Blocks' = Blocks \cup RowsOf(SB(i), txBlocks[SB(i)])
  /\ PayloadRows' = PayloadRows \cup RowsOf(SB(i), txRows[SB(i)])
  /\ txBlocks' = [txBlocks EXCEPT ![SB(i)] = {}]
  /\ txRows' = [txRows EXCEPT ![SB(i)] = {}]
  /\ blockData' = [blockData EXCEPT ![i] = DispatchInfo(evHash[i], SB(i))]
  /\ hPc' = [hPc EXCEPT ![i] = "done"]
  /\ hOutcome' = [hOutcome EXCEPT ![i] = "saved"]
  /\ UNCHANGED <<auxVars, cursorKey, cursorBy, chainCursorKey, StreamingErrors, publishQueue, txCursor, pkVars,
                 blocksAlreadyReceived, evHash, saveCalls, persistedAtCall>>

\* Block.create, processPayloadKey or commit rejects (Block.create also on the
\* unique constraint on hash): control moves to the catch block of saveBlock
SBThrow(i) ==
  /\ hPc[i] \in {"create", "payload", "commit"}
  /\ hPc' = [hPc EXCEPT ![i] = "rollback"]
  /\ UNCHANGED <<auxVars, dbVars, publishQueue, txVars, pkVars, blocksAlreadyReceived,
                 evHash, blockData, hOutcome, saveCalls, persistedAtCall>>

\* variant: the catch of saveBlock returning a DispatchInfo instead of null
SBRollbackReturnsInfo(i) ==
  /\ hPc[i] = "rollback"
  /\ txBlocks' = [txBlocks EXCEPT ![SB(i)] = {}]
  /\ txRows' = [txRows EXCEPT ![SB(i)] = {}]
  /\ blockData' = [blockData EXCEPT ![i] = DispatchInfo(evHash[i], SB(i))]
  /\ hPc' = [hPc EXCEPT ![i] = "done"]
  /\ hOutcome' = [hOutcome EXCEPT ![i] = "saved"]
  /\ UNCHANGED <<auxVars, dbVars, publishQueue, txCursor, pkVars, blocksAlreadyReceived,
                 evHash, saveCalls, persistedAtCall>>
\* variant: the catch of saveBlock committing instead of rolling back
SBRollbackCommits(i) ==
  /\ hPc[i] = "rollback"
  /\ Blocks' = Blocks \cup RowsOf(SB(i), txBlocks[SB(i)])
  /\ PayloadRows' = PayloadRows \cup RowsOf(SB(i), txRows[SB(i)])
  /\ txBlocks' = [txBlocks EXCEPT ![SB(i)] = {}]
  /\ txRows' = [txRows EXCEPT ![SB(i)] = {}]
  /\ blockData' = [blockData EXCEPT ![i] = NullResult]
  /\ hPc' = [hPc EXCEPT ![i] = "error"]
  /\ UNCHANGED <<auxVars, cursorKey, cursorBy, chainCursorKey, StreamingErrors, publishQueue, txCursor, pkVars,
                 blocksAlreadyReceived, evHash, hOutcome, saveCalls, persistedAtCall>>
\* catch: await tx.rollback(); console.error(...); return null
SBRollback(i) ==
  /\ hPc[i] = "rollback"
  /\ txBlocks' = [txBlocks EXCEPT ![SB(i)] = {}]
  /\ txRows' = [txRows EXCEPT ![SB(i)] = {}]
  /\ blockData' = [blockData EXCEPT ![i] = NullResult]
  /\ hPc' = [hPc EXCEPT ![i] = "error"]
  /\ UNCHANGED <<auxVars, dbVars, publishQueue, txCursor, pkVars, blocksAlreadyReceived,
                 evHash, hOutcome, saveCalls, persistedAtCall>>

\* variant: the listener inserting the StreamingError row twice
StreamingErrorCreateTwice(i) ==
  /\ hPc[i] = "error"
  /\ StreamingErrors' = StreamingErrors \o
       << [hash |-> evHash[i], chainId |-> ChainIdOf(evHash[i]), by |-> i],
          [hash |-> evHash[i], chainId |-> ChainIdOf(evHash[i]), by |-> i] >>
  /\ hPc' = [hPc EXCEPT ![i] = "done"]
  /\ hOutcome' = [hOutcome EXCEPT ![i] = "recorded"]
  /\ UNCHANGED <<auxVars, Blocks, PayloadRows, cursorKey, cursorBy, chainCursorKey, publishQueue, txVars, pkVars,
                 blocksAlreadyReceived, evHash, blockData, saveCalls, persistedAtCall>>
\* if (blockData === null) await StreamingError.create({hash, chainId}); return
StreamingErrorCreate(i) ==
  /\ hPc[i] = "error"
  /\ StreamingErrors' = Append(StreamingErrors,
       [hash |-> evHash[i], chainId |-> ChainIdOf(evHash[i]), by |-> i])
  /\ hPc' = [hPc EXCEPT ![i] = "done"]
  /\ hOutcome' = [hOutcome EXCEPT ![i] = "recorded"]
  /\ UNCHANGED <<auxVars, Blocks, PayloadRows, cursorKey, cursorBy, chainCursorKey, publishQueue, txVars, pkVars,
                 blocksAlreadyReceived, evHash, blockData, saveCalls, persistedAtCall>>

\* StreamingError.create rejects: the listener's catch logs the error
StreamingErrorCreateFail(i) ==
  /\ hPc[i] = "error"
  /\ hPc' = [hPc EXCEPT ![i] = "done"]
  /\ hOutcome' = [hOutcome EXCEPT ![i] = "caught"]
  /\ UNCHANGED <<auxVars, dbVars, publishQueue, txVars, pkVars, blocksAlreadyReceived,
                 evHash, blockData, saveCalls, persistedAtCall>>

\* setInterval(() => blocksAlreadyReceived.clear(), 1000 * 60 * 10)
ClearReceived ==
  /\ blocksAlreadyReceived # {}
  /\ blocksAlreadyReceived' = {}
  /\ saveCalls' = [h \in Hashes |-> 0]
  /\ UNCHANGED <<auxVars, dbVars, publishQueue, txVars, pkVars, hPc, evHash, blockData, hOutcome,
                 persistedAtCall>>

\* the steps of the listener run of event i
StreamStep(i) ==
  \/ \E h \in Hashes, valid \in BOOLEAN : OnBlockHeader(i, h, valid)
  \/ SBBegin(i)
  \/ SBBeginFail(i)
  \/ SBBlockCreate(i)
  \/ SBProcessPayloadKey(i)
  \/ SBCommit(i)
  \/ SBThrow(i)
  \/ SBRollback(i)
  \/ StreamingErrorCreate(i)
  \/ StreamingErrorCreateFail(i)

StreamNext ==
  \/ \E i \in Handlers : StreamStep(i)
  \/ ClearReceived

SpecStream == Init /\ [][StreamNext]_vars

\* the processKeys calls run for different chains, each on the prefix of its
\* chain, in every interleaving
InitChains == InitState /\ pkPrefix = [p \in Calls |-> (p - 1) % NumChains]

SpecChains == InitChains /\ [][ArchiveNext]_vars

\* one processKeys call and one BlockHeader event, in every interleaving
RaceNext == ArchiveStep(1) \/ StreamStep(1)

SpecRace == Init /\ [][RaceNext]_vars

\* ============================================================== gap filler
\* one fetchHeadersWithRetry(network, chainId, fromHeight, toHeight) in flight;
\* cur = it was started by the tick the daemon is awaiting
Fetch(c, lo, hi, cur) == [chainId |-> c, fromHeight |-> lo, toHeight |-> hi, cur |-> cur]

\* syncStatusService.getNextMissingBlock(network, chainId, 1): the lowest
\* contiguous range of heights with no Block row, as a list of at most one range
NextMissingBlock(c) ==
  IF missingHeights[c] = {} THEN <<>>
  ELSE LET lo == Min(missingHeights[c])
           hi == Max({h \in missingHeights[c] : lo..h \subseteq missingHeights[c]})
       IN  << [fromHeight |-> lo, toHeight |-> hi] >>

\* splitIntoChunks(toHeight, fromHeight, n): pairs <<chunkTo, chunkFrom>> of at
\* most n heights each, covering fromHeight..toHeight
RECURSIVE SplitIntoChunks(_, _, _)
SplitIntoChunks(to, from, n) ==
  IF to < from THEN {}
  ELSE LET lo == IF to - n + 1 > from THEN to - n + 1 ELSE from
       IN  {<<to, lo>>} \cup SplitIntoChunks(lo - 1, from, n)

\* processMissingBlock: one fetchHeadersWithRetry(network, chainId, chunk[1],
\* chunk[0]) per chunk of the range
ProcessMissingBlock(c, missingBlock, cur) ==
  {Fetch(c, chunk[2], chunk[1], cur) :
     chunk \in SplitIntoChunks(missingBlock.toHeight, missingBlock.fromHeight,
                               SYNC_FETCH_INTERVAL_IN_BLOCKS)}

\* variant: the loop test ignoring the shutdown signal
LoopTestIgnoresSignal == TRUE
\* while (!shutdownSignal.isTriggered)
LoopTest == ~isTriggered

\* variant: the error of a tick leaving the daemon
DaemonRethrows == dPc' = "exited"
\* catch (error) { console.error(...); await delay(sleepInterval); }
DaemonCatch == dPc' = "sleepErr"

\* The awaits above the chain callbacks, once their states are pcs:
\* Promise.all(chainPromises) rejects with the first rejection and resolves
\* when every callback has resolved; the daemon then sleeps in its try or in
\* its catch.  Callbacks of a tick the daemon no longer awaits change nothing.
Settle(pcs) ==
  IF dPc # "tick" THEN dPc' = dPc
  ELSE IF \E c \in Chains : pcs[c] = "failed" THEN DaemonCatch
  ELSE IF \A c \in Chains : pcs[c] = "done" THEN dPc' = "sleep"
  ELSE dPc' = dPc

\* startMissingBlocks(network) up to its first await: one async callback per
\* chain, each calling getNextMissingBlock.  Calls of the previous tick that
\* are still in flight go on, no longer awaited (at most MaxStale of them).
StartMissingBlocks ==
  /\ \A c \in Chains : cPc[c] = "query" => c \notin staleQuery
  /\ \A f \in fetches : f.cur => [f EXCEPT !.cur = FALSE] \notin fetches
  /\ Cardinality(fetches) + Cardinality(staleQuery)
       + Cardinality({c \in Chains : cPc[c] = "query"}) <= MaxStale
  /\ dPc' = "tick"
  /\ cPc' = [c \in Chains |-> "query"]
  /\ staleQuery' = staleQuery \cup {c \in Chains : cPc[c] = "query"}
  /\ fetches' = {[f EXCEPT !.cur = FALSE] : f \in fetches}

\* startMissingBlocksDaemon(network): the signal handlers are registered, the
\* first loop test passes and the first tick starts; m = the heights missing
\* from the Block table at that time
DaemonStart(m) ==
  /\ dPc = "off"
  /\ missingHeights' = m
  /\ StartMissingBlocks
  /\ UNCHANGED <<nonSvcVars, retryVars, isTriggered, errVars>>

\* delay(sleepInterval) resolves, in the try or in the catch: the loop test,
\* then the next tick or the end of the daemon
Wake ==
  /\ dPc \in {"sleep", "sleepErr"}
  /\ IF LoopTest
     THEN StartMissingBlocks
     ELSE dPc' = "exited" /\ UNCHANGED <<cPc, fetches, staleQuery>>
  /\ UNCHANGED <<nonSvcVars, retryVars, isTriggered, missingHeights, errVars>>

\* process.on("SIGINT" / "SIGTERM", () => shutdownSignal.trigger())
Signal ==
  /\ dPc # "off"
  /\ isTriggered' = TRUE
  /\ UNCHANGED <<nonSvcVars, retryVars, dPc, cPc, fetches, staleQuery, missingHeights, errVars>>

\* variant: the callback of chain c never calling processMissingBlock
ChainQuerySkips(c) ==
  /\ cPc[c] = "query"
  /\ LET pcs == [cPc EXCEPT ![c] = "done"]
     IN  cPc' = pcs /\ Settle(pcs)
  /\ UNCHANGED <<nonSvcVars, retryVars, isTriggered, fetches, staleQuery, missingHeights, errVars>>
\* the getNextMissingBlock of chain c resolves: the callback starts the fetches
\* of the chunks of the range and awaits them, or is done when nothing is missing
ChainQuery(c) ==
  /\ cPc[c] = "query"
  /\ LET mbs == NextMissingBlock(c)
         new == IF mbs = <<>> THEN {} ELSE ProcessMissingBlock(c, mbs[1], TRUE)
         pcs == [cPc EXCEPT ![c] = IF new = {} THEN "done" ELSE "fetch"]
     IN  /\ fetches' = fetches \cup new
         /\ cPc' = pcs
         /\ Settle(pcs)
  /\ UNCHANGED <<nonSvcVars, retryVars, isTriggered, staleQuery, missingHeights, errVars>>

\* the getNextMissingBlock of chain c rejects: the callback rejects
ChainQueryFail(c) ==
  /\ cPc[c] = "query"
  /\ LET pcs == [cPc EXCEPT ![c] = "failed"]
     IN  cPc' = pcs /\ Settle(pcs)
  /\ UNCHANGED <<nonSvcVars, retryVars, isTriggered, fetches, staleQuery, missingHeights, errVars>>

\* a getNextMissingBlock left over from an earlier tick resolves (ok: its
\* callback starts its fetches) or rejects
StaleQuery(c, ok) ==
  /\ c \in staleQuery
  /\ staleQuery' = staleQuery \ {c}
  /\ LET mbs == NextMissingBlock(c)
     IN  fetches' = IF ok /\ mbs # <<>>
                    THEN fetches \cup ProcessMissingBlock(c, mbs[1], FALSE)
                    ELSE fetches
  /\ UNCHANGED <<nonSvcVars, retryVars, isTriggered, dPc, cPc, missingHeights, errVars>>

\* the state of the chain callbacks after fetch f has resolved (or rejected)
AfterFetch(f, rejected) ==
  IF f.cur /\ cPc[f.chainId] = "fetch"
  THEN [cPc EXCEPT ![f.chainId] =
          IF rejected THEN "failed"
          ELSE IF \E g \in fetches \ {f} : g.cur /\ g.chainId = f.chainId
               THEN "fetch" ELSE "done"]
  ELSE cPc

\* fetchHeadersWithRetry resolves having persisted the blocks of its range
FetchSucceed(f) ==
  /\ f \in fetches
  /\ fetches' = fetches \ {f}
  /\ missingHeights' = [missingHeights EXCEPT ![f.chainId] = @ \ (f.fromHeight..f.toHeight)]
  /\ cPc' = AfterFetch(f, FALSE)
  /\ Settle(AfterFetch(f, FALSE))
  /\ UNCHANGED <<nonSvcVars, retryVars, isTriggered, staleQuery, errVars>>

\* fetchHeadersWithRetry runs out of attempts: it records a SyncError of
\* source API for its range and resolves
FetchExhaust(f) ==
  /\ f \in fetches
  /\ nextErrorId <= MaxErrors
  /\ fetches' = fetches \ {f}
  /\ SyncErrors' = SyncErrors \cup
       {[id |-> nextErrorId, chainId |-> f.chainId,
         fromHeight |-> f.fromHeight, toHeight |-> f.toHeight]}
  /\ nextErrorId' = nextErrorId + 1
  /\ cPc' = AfterFetch(f, FALSE)
  /\ Settle(AfterFetch(f, FALSE))
  /\ UNCHANGED <<nonSvcVars, retryVars, isTriggered, staleQuery, missingHeights>>

\* fetchHeadersWithRetry rejects
FetchThrow(f) ==
  /\ f \in fetches
  /\ fetches' = fetches \ {f}
  /\ cPc' = AfterFetch(f, TRUE)
  /\ Settle(AfterFetch(f, TRUE))
  /\ UNCHANGED <<nonSvcVars, retryVars, isTriggered, staleQuery, missingHeights, errVars>>

GapNext ==
  \/ \E m \in [Chains -> SUBSET Heights] : DaemonStart(m)
  \/ Wake
  \/ Signal
  \/ \E c \in Chains : ChainQuery(c)
  \/ \E c \in Chains : ChainQueryFail(c)
  \/ \E c \in Chains, ok \in BOOLEAN : StaleQuery(c, ok)
  \/ \E f \in fetches : FetchSucceed(f)
  \/ \E f \in fetches : FetchExhaust(f)
  \/ \E f \in fetches : FetchThrow(f)

SpecGap == Init /\ [][GapNext]_vars

\* Scheduling: delay resolves, every getNextMissingBlock resolves or rejects,
\* every fetchHeadersWithRetry ends (its retries are bounded); "fetches that
\* eventually succeed": a query or fetch that is retried for ever does not
\* fail for ever.
GapFairness ==
  /\ WF_vars(\E m \in [Chains -> SUBSET Heights] : DaemonStart(m))
  /\ WF_vars(Wake)
  /\ \A c \in Chains :
       /\ SF_vars(ChainQuery(c))
       /\ WF_vars(\E ok \in BOOLEAN : StaleQuery(c, ok))
       /\ SF_vars(\E f \in fetches : f.chainId = c /\ FetchSucceed(f))

SpecGapFair == SpecGap /\ GapFairness

\* ------------------------------------------ the listener, then the gap filler
\* header.height of the block with hash h: a streamed block is the newest
\* block of its chain that can be indexed
HeightOf(h) == TipHeight - 1

\* the heights with no Block row, per chain, as getNextMissingBlock sees them
MissingFromBlocks ==
  [c \in Chains |->
     {HeightOf(h) : h \in {g \in Hashes : ChainIdOf(g) = c /\ g \notin CommittedHashes}}]

\* the daemon is started after the listener run of the first event has ended
RecoverStart ==
  /\ hPc[1] = "done"
  /\ DaemonStart(MissingFromBlocks)

\* the block with hash h is persisted: by saveBlock, or by a fetch of the gap
\* filler that covered its height
PersistedByGapFiller(h) ==
  dPc # "off" /\ HeightOf(h) \notin missingHeights[ChainIdOf(h)]
                /\ HeightOf(h) \in MissingFromBlocks[ChainIdOf(h)]
Recorded(h) == \E n \in 1..Len(StreamingErrors) : StreamingErrors[n].hash = h

\* (no shutdown signal arrives: the daemon keeps ticking)
RecoverNext ==
  \/ StreamStep(1)
  \/ RecoverStart
  \/ Wake
  \/ \E c \in Chains : ChainQuery(c)
  \/ \E c \in Chains : ChainQueryFail(c)
  \/ \E c \in Chains, ok \in BOOLEAN : StaleQuery(c, ok)
  \/ \E f \in fetches : FetchSucceed(f)
  \/ \E f \in fetches : FetchExhaust(f)
  \/ \E f \in fetches : FetchThrow(f)

\* Scheduling: the listener run goes on to its end, the daemon is started,
\* and the gap filler is scheduled as in GapFairness
RecoverFairness ==
  /\ WF_vars(StreamStep(1))
  /\ WF_vars(RecoverStart)
  /\ WF_vars(Wake)
  /\ \A c \in Chains :
       /\ SF_vars(ChainQuery(c))
       /\ WF_vars(\E ok \in BOOLEAN : StaleQuery(c, ok))
       /\ SF_vars(\E f \in fetches : f.chainId = c /\ FetchSucceed(f))

SpecRecover == Init /\ [][RecoverNext]_vars /\ RecoverFairness

\* ========================================================= startRetryErrors
ErrorRow(id, c, lo, hi) == [id |-> id, chainId |-> c, fromHeight |-> lo, toHeight |-> hi]
ErrorRanges == {r \in Chains \X Heights \X Heights : r[2] <= r[3]}
\* the SyncError tables with rows 1..n of source API
ErrorTables ==
  UNION {{ {ErrorRow(id, rs[id][1], rs[id][2], rs[id][3]) : id \in 1..n} :
             rs \in [1..n -> ErrorRanges]} : n \in 0..MaxRetryRows}
\* syncErrorService.getErrors(network, SOURCE_API): the rows, by id
ErrorsById(table) ==
  LET ids == SortedSeq({r.id : r \in table})
  IN  [n \in 1..Len(ids) |-> CHOOSE r \in table : r.id = ids[n]]

\* startRetryErrors(network) up to `await syncErrorService.getErrors`; table =
\* the SyncError rows at that time, whose ranges are the heights still missing
RetryStart(table) ==
  /\ rPc = "off"
  /\ SyncErrors' = table
  /\ nextErrorId' = MaxRetryRows + 1
  /\ missingHeights' = [c \in Chains |->
        UNION {r.fromHeight..r.toHeight : r \in {x \in table : x.chainId = c}}]
  /\ rPc' = "get"
  /\ UNCHANGED <<nonSvcVars, gapVars, errors, errIdx, rOutcome, rDeleted>>

\* errors = await syncErrorService.getErrors(network, SOURCE_API); for (const error of errors)
RetryGetErrors ==
  /\ rPc = "get"
  /\ errors' = ErrorsById(SyncErrors)
  /\ errIdx' = IF SyncErrors = {} THEN 0 ELSE 1
  /\ rPc' = IF SyncErrors = {} THEN "done" ELSE "fetch"
  /\ UNCHANGED <<nonSvcVars, gapVars, missingHeights, errVars, rOutcome, rDeleted>>

\* getErrors rejects: the outer catch logs and startRetryErrors resolves
RetryGetErrorsFail ==
  /\ rPc = "get"
  /\ rPc' = "done"
  /\ UNCHANGED <<nonSvcVars, gapVars, missingHeights, errVars, errors, errIdx,
                 rOutcome, rDeleted>>

\* the for loop moves to the next row of errors, or ends
NextError ==
  IF errIdx < Len(errors)
  THEN errIdx' = errIdx + 1 /\ rPc' = "fetch"
  ELSE errIdx' = errIdx /\ rPc' = "done"

\* variant: the inner catch leaving the loop
RetryCatchAborts == errIdx' = errIdx /\ rPc' = "done"
\* catch (err) { console.log(...); console.log("Moving to next error..."); }
RetryCatch == NextError

\* await fetchHeadersWithRetry(error.network, error.chainId, error.fromHeight,
\* error.toHeight) resolves having persisted the blocks of the range
RetryFetchSucceed ==
  /\ rPc = "fetch"
  /\ LET error == errors[errIdx]
     IN  /\ missingHeights' = [missingHeights EXCEPT ![error.chainId] =
                                 @ \ (error.fromHeight..error.toHeight)]
         /\ rOutcome' = [rOutcome EXCEPT ![error.id] = "persisted"]
  /\ rPc' = "delete"
  /\ UNCHANGED <<nonSvcVars, gapVars, errVars, errors, errIdx, rDeleted>>

\* fetchHeadersWithRetry runs out of attempts again: it records a new
\* SyncError for the range and resolves
RetryFetchExhaust ==
  /\ rPc = "fetch"
  /\ nextErrorId <= MaxRetryRows + MaxErrors
  /\ LET error == errors[errIdx]
     IN  /\ SyncErrors' = SyncErrors \cup
               {ErrorRow(nextErrorId, error.chainId, error.fromHeight, error.toHeight)}
         /\ rOutcome' = [rOutcome EXCEPT ![error.id] = "exhausted"]
  /\ nextErrorId' = nextErrorId + 1
  /\ rPc' = "delete"
  /\ UNCHANGED <<nonSvcVars, gapVars, missingHeights, errors, errIdx, rDeleted>>

\* fetchHeadersWithRetry rejects: the inner catch
RetryFetchThrow ==
  /\ rPc = "fetch"
  /\ rOutcome' = [rOutcome EXCEPT ![errors[errIdx].id] = "threw"]
  /\ RetryCatch
  /\ UNCHANGED <<nonSvcVars, gapVars, missingHeights, errVars, errors, rDeleted>>

\* await syncErrorService.delete(error.id)
RetryDelete ==
  /\ rPc = "delete"
  /\ SyncErrors' = {r \in SyncErrors : r.id # errors[errIdx].id}
  /\ rDeleted' = rDeleted \cup {errors[errIdx].id}
  /\ NextError
  /\ UNCHANGED <<nonSvcVars, gapVars, missingHeights, nextErrorId, errors, rOutcome>>

\* syncErrorService.delete rejects: the inner catch
RetryDeleteFail ==
  /\ rPc = "delete"
  /\ RetryCatch
  /\ UNCHANGED <<nonSvcVars, gapVars, missingHeights, errVars, errors, rOutcome, rDeleted>>

RetryNext ==
  \/ \E table \in ErrorTables : RetryStart(table)
  \/ RetryGetErrors
  \/ RetryGetErrorsFail
  \/ RetryFetchSucceed
  \/ RetryFetchExhaust
  \/ RetryFetchThrow
  \/ RetryDelete
  \/ RetryDeleteFail

SpecRetry == Init /\ [][RetryNext]_vars

\* =========================================================== backfillGuards
Runs     == 1..MaxRuns
Balances == 1..NumBalances

\* SELECT b.id, ... FROM "Balances" b WHERE b.id > currentId ORDER BY b.id LIMIT limit
SelectBalances(after, limit) ==
  LET all == SortedSeq({b \in Balances : b > after})
  IN  SubSeq(all, 1, IF limit < Len(all) THEN limit ELSE Len(all))

\* variant: one limiter per backfillGuards run
RECURSIVE AdmitPerRun(_, _)
AdmitPerRun(queue, active) ==
  IF queue # <<>>
     /\ Cardinality({a \in active : a[1] = Head(queue)[1]}) < CONCURRENCY_LIMIT
  THEN AdmitPerRun(Tail(queue), active \cup {Head(queue)})
  ELSE <<queue, active>>
\* limitFetch = pLimit(CONCURRENCY_LIMIT), one limiter for the module: a
\* waiting call starts as soon as fewer than CONCURRENCY_LIMIT calls are in flight
RECURSIVE Admit(_, _)
Admit(queue, active) ==
  IF queue # <<>> /\ Cardinality(active) < CONCURRENCY_LIMIT
  THEN Admit(Tail(queue), active \cup {Head(queue)})
  ELSE <<queue, active>>

\* backfillGuards() up to `await rootPgPool.query(deleteGuardsQuery)`; called
\* by startStreaming at startup and then by the hourly timer
GStart(r) ==
  /\ gPc[r] = "off"
  /\ r > 1 => gPc[r - 1] # "off"
  /\ gPc' = [gPc EXCEPT ![r] = "delete"]
  /\ UNCHANGED <<nonGuardVars, handed, Guards, currentId, rows, fetched, txGuards, gOutcome,
                 limitQueue, limitActive>>

\* DELETE FROM "Guards" resolves; currentId = 0; the first SELECT is issued
GDelete(r) ==
  /\ gPc[r] = "delete"
  /\ Guards' = {}
  /\ currentId' = [currentId EXCEPT ![r] = 0]
  /\ gPc' = [gPc EXCEPT ![r] = "select"]
  /\ UNCHANGED <<nonGuardVars, handed, rows, fetched, txGuards, gOutcome, limitQueue, limitActive>>

\* the delete, a SELECT or sequelize.transaction() rejects: none is inside a
\* try, so backfillGuards rejects
GReject(r) ==
  /\ gPc[r] \in {"delete", "select", "begin"}
  /\ gPc' = [gPc EXCEPT ![r] = "done"]
  /\ gOutcome' = [gOutcome EXCEPT ![r] = "rejected"]
  /\ UNCHANGED <<nonGuardVars, handed, Guards, currentId, rows, fetched, txGuards, limitQueue, limitActive>>

\* the SELECT resolves: no rows ends the loop; otherwise every row is handed
\* to limitFetch and the run awaits Promise.all(fetchPromises)
GSelect(r) ==
  /\ gPc[r] = "select"
  /\ LET rs == SelectBalances(currentId[r], BatchLimit)
         adm == Admit(limitQueue \o [n \in 1..Len(rs) |-> <<r, rs[n]>>], limitActive)
     IN  /\ rows' = [rows EXCEPT ![r] = rs]
         /\ fetched' = [fetched EXCEPT ![r] = {}]
         /\ handed' = [handed EXCEPT ![r] = @ \o rs]
         /\ IF rs = <<>>
            THEN /\ gPc' = [gPc EXCEPT ![r] = "done"]
                 /\ gOutcome' = [gOutcome EXCEPT ![r] = "finished"]
                 /\ UNCHANGED <<limitQueue, limitActive>>
            ELSE /\ gPc' = [gPc EXCEPT ![r] = "fetch"]
                 /\ limitQueue' = adm[1] /\ limitActive' = adm[2]
                 /\ UNCHANGED gOutcome
  /\ UNCHANGED <<nonGuardVars, Guards, currentId, txGuards>>

\* getGuardsFromBalances of row b of run r resolves: the limiter starts the
\* next waiting call; with the last row of the batch Promise.all resolves and
\* the run awaits sequelize.transaction()
GFetchResolved(r, b) ==
  /\ <<r, b>> \in limitActive
  /\ LET adm == Admit(limitQueue, limitActive \ {<<r, b>>})
     IN  limitQueue' = adm[1] /\ limitActive' = adm[2]
  /\ IF gPc[r] = "fetch"
     THEN /\ fetched' = [fetched EXCEPT ![r] = @ \cup {b}]
          /\ gPc' = [gPc EXCEPT ![r] =
                      IF fetched[r] \cup {b} = {rows[r][n] : n \in 1..Len(rows[r])}
                      THEN "begin" ELSE "fetch"]
     ELSE UNCHANGED <<fetched, gPc>>
  /\ UNCHANGED <<nonGuardVars, handed, Guards, currentId, rows, txGuards, gOutcome>>

\* getGuardsFromBalances rejects: Promise.all rejects, outside any try, so
\* backfillGuards rejects; the other calls of the batch stay with the limiter
GFetchRejected(r, b) ==
  /\ <<r, b>> \in limitActive
  /\ LET adm == Admit(limitQueue, limitActive \ {<<r, b>>})
     IN  limitQueue' = adm[1] /\ limitActive' = adm[2]
  /\ IF gPc[r] = "fetch"
     THEN /\ gPc' = [gPc EXCEPT ![r] = "done"]
          /\ gOutcome' = [gOutcome EXCEPT ![r] = "rejected"]
     ELSE UNCHANGED <<gPc, gOutcome>>
  /\ UNCHANGED <<nonGuardVars, handed, Guards, currentId, rows, fetched, txGuards>>

\* tx = await sequelize.transaction()
GBegin(r) ==
  /\ gPc[r] = "begin"
  /\ gPc' = [gPc EXCEPT ![r] = "bulk"]
  /\ UNCHANGED <<nonGuardVars, handed, Guards, currentId, rows, fetched, txGuards, gOutcome,
                 limitQueue, limitActive>>

\* await Guard.bulkCreate(guards, {transaction: tx})
GBulkCreate(r) ==
  /\ gPc[r] = "bulk"
  /\ txGuards' = [txGuards EXCEPT ![r] = {[balanceId |-> b, run |-> r] : b \in fetched[r]}]
  /\ gPc' = [gPc EXCEPT ![r] = "commit"]
  /\ UNCHANGED <<nonGuardVars, handed, Guards, currentId, rows, fetched, gOutcome, limitQueue, limitActive>>

\* variant: currentId set to the id of the first row of the batch
GCommitFirstRowId(r) ==
  /\ gPc[r] = "commit"
  /\ Guards' = Guards \cup txGuards[r]
  /\ txGuards' = [txGuards EXCEPT ![r] = {}]
  /\ currentId' = [currentId EXCEPT ![r] = rows[r][1]]
  /\ gPc' = [gPc EXCEPT ![r] = "select"]
  /\ UNCHANGED <<nonGuardVars, handed, rows, fetched, gOutcome, limitQueue, limitActive>>
\* await tx.commit(); currentId = rows[rows.length - 1].id; the next SELECT
GCommit(r) ==
  /\ gPc[r] = "commit"
  /\ Guards' = Guards \cup txGuards[r]
  /\ txGuards' = [txGuards EXCEPT ![r] = {}]
  /\ currentId' = [currentId EXCEPT ![r] = rows[r][Len(rows[r])]]
  /\ gPc' = [gPc EXCEPT ![r] = "select"]
  /\ UNCHANGED <<nonGuardVars, handed, rows, fetched, gOutcome, limitQueue, limitActive>>

\* bulkCreate or commit rejects: catch (batchError)
GThrow(r) ==
  /\ gPc[r] \in {"bulk", "commit"}
  /\ gPc' = [gPc EXCEPT ![r] = "rollback"]
  /\ UNCHANGED <<nonGuardVars, handed, Guards, currentId, rows, fetched, txGuards, gOutcome,
                 limitQueue, limitActive>>

\* variant: the catch committing the transaction
GRollbackCommits(r) ==
  /\ gPc[r] = "rollback"
  /\ Guards' = Guards \cup txGuards[r]
  /\ txGuards' = [txGuards EXCEPT ![r] = {}]
  /\ gPc' = [gPc EXCEPT ![r] = "done"]
  /\ gOutcome' = [gOutcome EXCEPT ![r] = "aborted"]
  /\ UNCHANGED <<nonGuardVars, handed, currentId, rows, fetched, limitQueue, limitActive>>
\* try { await tx.rollback() } catch (rollbackError) { ... }; break
GRollback(r) ==
  /\ gPc[r] = "rollback"
  /\ txGuards' = [txGuards EXCEPT ![r] = {}]
  /\ gPc' = [gPc EXCEPT ![r] = "done"]
  /\ gOutcome' = [gOutcome EXCEPT ![r] = "aborted"]
  /\ UNCHANGED <<nonGuardVars, handed, Guards, currentId, rows, fetched, limitQueue, limitActive>>

GuardNext ==
  \E r \in Runs :
    \/ GStart(r)
    \/ GDelete(r)
    \/ GReject(r)
    \/ GSelect(r)
    \/ \E b \in Balances : GFetchResolved(r, b)
    \/ \E b \in Balances : GFetchRejected(r, b)
    \/ GBegin(r)
    \/ GBulkCreate(r)
    \/ GCommit(r)
    \/ GThrow(r)
    \/ GRollback(r)

SpecGuards == Init /\ [][GuardNext]_vars

\* Scheduling: every query, fetch, transaction call and rollback of a run
\* settles; a call that settles by resolving is not prevented for ever
GuardFairness ==
  \A r \in Runs :
    /\ WF_vars(GDelete(r))
    /\ WF_vars(GSelect(r))
    /\ WF_vars(\E b \in Balances : GFetchResolved(r, b))
    /\ WF_vars(GBegin(r))
    /\ WF_vars(GBulkCreate(r))
    /\ WF_vars(GCommit(r))
    /\ WF_vars(GRollback(r))

SpecGuardsFair == SpecGuards /\ GuardFairness

\* ========================================================== POST /new-block
NoIp == <<>>                       \* req.ip undefined
\* client addresses, as four octets
IPs == {<<10, 0, 2, 1>>, <<10, 0, 3, 254>>, <<10, 0, 4, 1>>, <<10, 0, 1, 255>>,
        <<10, 1, 2, 1>>, <<192, 168, 2, 1>>, NoIp}
\* allowedCIDRs = ['10.0.2.0/24', '10.0.3.0/24']
allowedCIDRs == {[base |-> <<10, 0, 2, 0>>, bits |-> 24], [base |-> <<10, 0, 3, 0>>, bits |-> 24]}

\* the first `bits` bits of an address, for bits <= 24
IpPrefix(ip, bits) == ((ip[1] * 256 + ip[2]) * 256 + ip[3]) \div (2 ^ (24 - bits))
\* ipRangeCheck(ip, cidrs): the first `bits` bits of ip are those of a range
IpRangeCheck(ip, cidrs) ==
  \E c \in cidrs : IpPrefix(ip, c.bits) = IpPrefix(c.base, c.bits)

\* if (req.ip && ipRangeCheck(req.ip, allowedCIDRs)) next(); else 403
IpFilterPasses(ip) == ip # NoIp /\ IpRangeCheck(ip, allowedCIDRs)

\* request bodies: not JSON at all; JSON that is no DispatchInfo; DispatchInfo
MalformedBody == [kind |-> "malformed"]
InvalidBody   == [kind |-> "invalid"]
ValidBodies ==
  {[kind |-> "valid", hash |-> "h", chainId |-> 0, height |-> 7,
    requestKeys |-> ks, qualifiedEventNames |-> ns] :
     ks \in {<<>>, <<"k1">>, <<"k1", "k2">>},
     ns \in {<<>>, <<"coin.TRANSFER">>, <<"coin.TRANSFER", "coin.GAS">>}}
Bodies == {MalformedBody, InvalidBody} \cup ValidBodies

\* the messages the handler publishes for a DispatchInfo, in order
Publications(d) ==
  << [channel |-> "NEW_BLOCKS_EVENT", hash |-> d.hash, chainId |-> d.chainId],
     [channel |-> "NEW_BLOCKS_FROM_DEPTH_EVENT", hash |-> d.hash, chainId |-> d.chainId,
      height |-> d.height] >>
  \o [n \in 1..Len(d.qualifiedEventNames) |->
        [channel |-> "EVENTS_EVENT", qualifiedEventName |-> d.qualifiedEventNames[n],
         hash |-> d.hash, chainId |-> d.chainId, height |-> d.height]]
  \o [n \in 1..Len(d.requestKeys) |->
        [channel |-> "TRANSACTION_EVENT", requestKey |-> d.requestKeys[n],
         chainId |-> d.chainId]]

\* A POST /new-block arrives.  app.use(express.json()) is mounted before the
\* route: a body that is not JSON ends there with status 400 from the error
\* handler.  Then ipFilterMiddleware: 403, or next() into the handler up to
\* `await dispatchInfoSchema.safeParseAsync(req.body)`.
NewBlockRequest(ip, body) ==
  /\ reqPc = "none"
  /\ reqIp' = ip /\ reqBody' = body
  /\ IF body = MalformedBody
     THEN reqPc' = "responded" /\ resStatus' = 400 /\ validated' = FALSE
     ELSE IF ~IpFilterPasses(ip)
     THEN reqPc' = "responded" /\ resStatus' = 403 /\ validated' = FALSE
     ELSE reqPc' = "parse" /\ resStatus' = 0 /\ validated' = TRUE
  /\ UNCHANGED <<nonWebVars, published, awaited, pvOperation, pvResult>>

\* the positions in Publications(d) of the promises collected in eventPromises
\* and transactionPromises (the NEW_BLOCKS and NEW_BLOCKS_FROM_DEPTH publishes
\* are not awaited)
AwaitedPublishes(d) == 3..Len(Publications(d))

\* safeParseAsync resolves: 400 when !payload.success; otherwise every message
\* is handed to publishSubscribe.publish and the handler awaits Promise.all
NewBlockParsed ==
  /\ reqPc = "parse"
  /\ IF reqBody = InvalidBody
     THEN reqPc' = "responded" /\ resStatus' = 400 /\ UNCHANGED <<published, awaited>>
     ELSE reqPc' = "publish" /\ published' = published \o Publications(reqBody)
                             /\ awaited' = {Len(published) + n : n \in AwaitedPublishes(reqBody)}
                             /\ UNCHANGED resStatus
  /\ UNCHANGED <<nonWebVars, reqIp, reqBody, validated, pvOperation, pvResult>>

\* the promise of an EVENTS or TRANSACTION publish resolves
PublishResolved(n) ==
  /\ n \in awaited
  /\ awaited' = awaited \ {n}
  /\ UNCHANGED <<nonWebVars, reqPc, reqIp, reqBody, resStatus, validated, published,
                 pvOperation, pvResult>>

\* variant: the handler answering without awaiting Promise.all
NewBlockPublishedUnawaited ==
  /\ reqPc = "publish"
  /\ reqPc' = "responded" /\ resStatus' = 200
  /\ UNCHANGED <<nonWebVars, reqIp, reqBody, validated, published, awaited,
                 pvOperation, pvResult>>
\* Promise.all([...eventPromises, ...transactionPromises]) resolves, every
\* promise having resolved: res.json
NewBlockPublished ==
  /\ reqPc = "publish"
  /\ awaited = {}
  /\ reqPc' = "responded" /\ resStatus' = 200
  /\ UNCHANGED <<nonWebVars, reqIp, reqBody, validated, published, awaited,
                 pvOperation, pvResult>>

\* an awaited publish rejects: Promise.all rejects, the async handler rejects
\* and no response is sent
NewBlockPublishFail(n) ==
  /\ reqPc = "publish"
  /\ n \in awaited
  /\ awaited' = awaited \ {n}
  /\ reqPc' = "failed"
  /\ UNCHANGED <<nonWebVars, reqIp, reqBody, resStatus, validated, published,
                 pvOperation, pvResult>>

NewBlockNext ==
  \/ \E ip \in IPs, body \in Bodies : NewBlockRequest(ip, body)
  \/ NewBlockParsed
  \/ \E n \in awaited : PublishResolved(n)
  \/ NewBlockPublished
  \/ \E n \in awaited : NewBlockPublishFail(n)

SpecNewBlock == Init /\ [][NewBlockNext]_vars

\* ========================================= validatePaginationParamsPlugin
PageArgs == {"after", "before", "first", "last"}
\* argument value nodes of the query AST
NoArg == [kind |-> "NONE"]
StringNode(chars) == [kind |-> "STRING", value |-> chars]
IntNode(digits) == [kind |-> "INT", value |-> digits]
VariableNode == [kind |-> "VARIABLE", name |-> "n"]    \* $n, given in request.variables
ArgNodes(a) ==
  IF a \in {"after", "before"}
  THEN {NoArg, StringNode(<<>>), StringNode(<<"c">>), VariableNode}
  ELSE {NoArg, IntNode(<<0>>), IntNode(<<5>>), VariableNode}
\* JavaScript values
Undefined == [t |-> "undefined"]
JsString(chars) == [t |-> "string", v |-> chars]
JsNumber(n) == [t |-> "number", v |-> n]
\* the truthiness used by `if (after && before)`
Truthy(x) ==
  CASE x.t = "undefined" -> FALSE
    [] x.t = "string" -> x.v # <<>>
    [] x.t = "number" -> x.v # 0

\* parseInt(arg.value.value, 10) of a digit string
RECURSIVE ParseInt(_)
ParseInt(digits) ==
  IF digits = <<>> THEN 0
  ELSE ParseInt(SubSeq(digits, 1, Len(digits) - 1)) * 10 + digits[Len(digits)]

\* the value stored in inlineArguments for an argument node, if any
InlineValue(node, old) ==
  CASE node.kind = "STRING" -> JsString(node.value)
    [] node.kind = "INT" -> JsNumber(ParseInt(node.value))
    [] OTHER -> old

\* extractArguments(node): a FIELD stores its literal arguments by name; a
\* SELECTION_SET visits its selections; the selectionSet of a FIELD is not
\* visited
RECURSIVE ExtractArguments(_, _)
RECURSIVE ExtractSelections(_, _)
ExtractArguments(node, inlineArguments) ==
  IF node.kind = "FIELD"
  THEN [a \in PageArgs |-> InlineValue(node.arguments[a], inlineArguments[a])]
  ELSE IF node.kind = "SELECTION_SET"
  THEN ExtractSelections(node.selections, inlineArguments)
  ELSE inlineArguments
ExtractSelections(selections, inlineArguments) ==
  IF selections = <<>> THEN inlineArguments
  ELSE ExtractSelections(Tail(selections), ExtractArguments(Head(selections), inlineArguments))

Field(arguments, selections) ==
  [kind |-> "FIELD", arguments |-> arguments,
   selectionSet |-> [kind |-> "SELECTION_SET", selections |-> selections]]
\* an operation: one top-level field with one nested field, and the variables
\* of the request that are named like a pagination argument
Operations ==
  {[selectionSet |-> [kind |-> "SELECTION_SET",
                      selections |-> <<Field(top, <<Field(nested, <<>>)>>)>>],
    variables |-> vs] :
     top \in {f \in [PageArgs -> UNION {ArgNodes(a) : a \in PageArgs}] :
                \A a \in PageArgs : f[a] \in ArgNodes(a)},
     nested \in {f \in [PageArgs -> {NoArg, StringNode(<<"c">>), IntNode(<<5>>)}] :
                \A a \in PageArgs : f[a] \in ArgNodes(a)},
     vs \in {f \in [PageArgs -> {Undefined, JsString(<<"c">>), JsNumber(5)}] :
                \A a \in PageArgs :
                  f[a] \in (IF a \in {"after", "before"}
                            THEN {Undefined, JsString(<<"c">>)}
                            ELSE {Undefined, JsNumber(5)})}}

\* didResolveOperation: "rejected" = a GraphQLError is thrown
DidResolveOperation(operation) ==
  LET inlineArguments ==
        ExtractArguments(operation.selectionSet, [a \in PageArgs |-> Undefined])
      combinedVariables ==
        [a \in PageArgs |-> IF operation.variables[a] # Undefined
                            THEN operation.variables[a] ELSE inlineArguments[a]]
      after  == combinedVariables["after"]
      before == combinedVariables["before"]
      first  == combinedVariables["first"]
      last   == combinedVariables["last"]
  IN  IF Truthy(after) /\ Truthy(before) THEN "rejected"
      ELSE IF Truthy(first) /\ Truthy(last) THEN "rejected"
      ELSE IF Truthy(before) /\ Truthy(first) THEN "rejected"
      ELSE IF Truthy(after) /\ Truthy(last) THEN "rejected"
      ELSE "accepted"

\* an operation reaches the plugin
ValidateOperation(operation) ==
  /\ pvOperation' = operation
  /\ pvResult' = DidResolveOperation(operation)
  /\ UNCHANGED <<nonWebVars, reqPc, reqIp, reqBody, resStatus, validated, published, awaited>>

\* one operation per model run
PaginationNext ==
  /\ pvResult = "none"
  /\ \E operation \in Operations : ValidateOperation(operation)

SpecPagination == Init /\ [][PaginationNext]_vars

\* ========================================================= isAllowedOrigin
\* strings and what `new URL(string)` makes of them: a URL with its scheme,
\* hostname (as labels) and port, or a string that new URL rejects
Url(scheme, hostname, port) ==
  [kind |-> "url", scheme |-> scheme, hostname |-> hostname, port |-> port]
NotUrl(text) == [kind |-> "text", text |-> text]
Unset == [kind |-> "undefined"]     \* process.env.X of a variable that is not set
NewUrlThrows(s) == s.kind # "url"
\* URL.origin: scheme, hostname and port
UrlOrigin(u) == <<u.scheme, u.hostname, u.port>>
\* hostname.endsWith('.kadena.io')
EndsWithKadenaIo(hostname) ==
  Len(hostname) >= 3 /\ SubSeq(hostname, Len(hostname) - 1, Len(hostname)) = <<"kadena", "io">>

ConfiguredUrls ==
  {Unset, Url("https", <<"kadena", "io">>, ""), Url("https", <<"api", "kadena", "io">>, ""),
   Url("https", <<"gateway", "example", "com">>, ""), NotUrl("kadena.io")}
Origins ==
  {Url("http", <<"localhost">>, "3000"), Url("https", <<"kadena", "io">>, ""),
   Url("http", <<"kadena", "io">>, ""), Url("https", <<"api", "kadena", "io">>, ""),
   Url("https", <<"docs", "kadena", "io">>, ""), Url("https", <<"notkadena", "io">>, ""),
   Url("https", <<"gateway", "example", "com">>, ""),
   Url("https", <<"gateway", "example", "com">>, "8443"),
   Url("https", <<"evil", "com">>, ""), NotUrl("null")}

\* [process.env.API_GATEWAY_URL ?? '', process.env.API_KADENA_URL ?? '']
AllowedOrigins(gateway, kadena) ==
  << IF gateway = Unset THEN NotUrl("") ELSE gateway,
     IF kadena = Unset THEN NotUrl("") ELSE kadena >>

\* ALLOWED_ORIGINS.some(allowed => ...) from element i on; a throw of
\* new URL(allowed) leaves `some` and is caught by the catch of isAllowedOrigin
RECURSIVE SomeAllowed(_, _, _)
SomeAllowed(originUrl, allowedOrigins, i) ==
  IF i > Len(allowedOrigins) THEN FALSE
  ELSE IF NewUrlThrows(allowedOrigins[i]) THEN FALSE
  ELSE IF UrlOrigin(originUrl) = UrlOrigin(allowedOrigins[i]) THEN TRUE
  ELSE IF allowedOrigins[i].hostname = <<"kadena", "io">>
          /\ EndsWithKadenaIo(originUrl.hostname) THEN TRUE
  ELSE SomeAllowed(originUrl, allowedOrigins, i + 1)

\* isAllowedOrigin(origin)
IsAllowedOrigin(origin, allowedOrigins) ==
  IF NewUrlThrows(origin) THEN FALSE
  ELSE IF origin.hostname = <<"localhost">> THEN TRUE
  ELSE SomeAllowed(origin, allowedOrigins, 1)

\* one call of isAllowedOrigin under one configuration
AllowedOriginCall(origin, gateway, kadena) ==
  /\ fnName' = "isAllowedOrigin"
  /\ fnArgs' = [origin |-> origin, API_GATEWAY_URL |-> gateway, API_KADENA_URL |-> kadena]
  /\ fnResult' = IsAllowedOrigin(origin, AllowedOrigins(gateway, kadena))
  /\ UNCHANGED nonFnVars

OriginNext ==
  /\ fnName = "none"
  /\ \E origin \in Origins, gateway \in ConfiguredUrls, kadena \in ConfiguredUrls :
       AllowedOriginCall(origin, gateway, kadena)

SpecOrigin == Init /\ [][OriginNext]_vars

\* ===================================================== repository queries
MaxTip     == 3     \* greatest height of the tip block of a chain
MaxEventId == 4     \* ids of the Events rows of the block or transaction queried
NoArgument == -1    \* an argument that is undefined or null

\* the first n elements of a sequence (LIMIT n)
Take(q, n) == SubSeq(q, 1, IF n < Len(q) THEN n ELSE Len(q))
Reverse(q) == [n \in 1..Len(q) |-> q[Len(q) + 1 - n]]
\* ORDER BY id ASC | DESC over a set of ids
OrderBy(ids, order) == IF order = "ASC" THEN SortedSeq(ids) ELSE Reverse(SortedSeq(ids))

\* the Blocks table when the tip of chain c is at height tips[c]: one row per
\* chain and height, ids growing with the height
BlockTable(tips) ==
  {[id |-> x[2] * NumChains + x[1] + 1, chainId |-> x[1], height |-> x[2]] :
     x \in {y \in Chains \X (0..MaxTip) : y[2] <= tips[y[1]]}}

\* the parameters of getBlocksFromDepth after getPaginationParams
DepthParams ==
  [minimumDepth : {NoArgument} \cup 0..2, after : {NoArgument, 2 * NumChains},
   before : {NoArgument, 2}, chainIds : {{}, {0}}, limit : {2, 20}, order : {"ASC", "DESC"}]

\* getBlocksFromDepth(params): BlockModel.findAll({where, limit, order})
GetBlocksFromDepth(table, params) ==
  LET where(b) ==
        /\ b.height > (IF params.minimumDepth = NoArgument THEN 0 ELSE params.minimumDepth)
        /\ params.after # NoArgument => b.id < params.after
        /\ params.before # NoArgument => b.id > params.before
        /\ params.chainIds # {} => b.chainId \in params.chainIds
      ids == OrderBy({b.id : b \in {r \in table : where(r)}}, params.order)
      page == Take(ids, params.limit)
  IN  [n \in 1..Len(page) |-> CHOOSE b \in table : b.id = page[n]]

\* one call of BlockDbRepository.getBlocksFromDepth
BlocksFromDepth(tips, params) ==
  /\ fnName' = "getBlocksFromDepth"
  /\ fnArgs' = [tips |-> tips, params |-> params]
  /\ fnResult' = GetBlocksFromDepth(BlockTable(tips), params)
  /\ UNCHANGED nonFnVars

DepthNext ==
  /\ fnName = "none"
  /\ \E tips \in [Chains -> 1..MaxTip], params \in DepthParams : BlocksFromDepth(tips, params)

SpecDepth == Init /\ [][DepthNext]_vars

\* the heights at which the Blocks table of getBlocksBetweenHeights may hold a
\* row, and the tables: one row of chain 0 per height, ids growing with it
TableHeights == {0, 1, 5, 25, 30}
HeightTable(hs) == {[id |-> h + 1, chainId |-> 0, height |-> h] : h \in hs}

\* the parameters of getBlocksBetweenHeights after getPaginationParams
BetweenParams ==
  [startHeight : {0, 1, 5}, endHeight : {NoArgument, 0, 5, 25},
   after : {NoArgument, 26}, before : {NoArgument, 1}, chainIds : {{}, {0}},
   limit : {2, 20}, order : {"ASC", "DESC"}]

\* getBlocksBetweenHeights(params): WHERE b.height >= $2 and the conditions
\* built from before, after, chainIds and endHeight, ORDER BY b.height, LIMIT $1
GetBlocksBetweenHeights(table, params) ==
  LET where(b) ==
        /\ b.height >= params.startHeight
        /\ params.before # NoArgument => b.id > params.before
        /\ params.after # NoArgument => b.id < params.after
        /\ params.chainIds # {} => b.chainId \in params.chainIds
        /\ (params.endHeight # NoArgument /\ params.endHeight # 0
              /\ params.endHeight - params.startHeight < 20)
             => b.height <= params.endHeight
      heights == OrderBy({b.height : b \in {r \in table : where(r)}}, params.order)
      page == Take(heights, params.limit)
  IN  [n \in 1..Len(page) |-> CHOOSE b \in table : b.height = page[n]]

\* one call of BlockDbRepository.getBlocksBetweenHeights
BlocksBetweenHeights(hs, params) ==
  /\ fnName' = "getBlocksBetweenHeights"
  /\ fnArgs' = [heights |-> hs, params |-> params]
  /\ fnResult' = GetBlocksBetweenHeights(HeightTable(hs), params)
  /\ UNCHANGED nonFnVars

BetweenNext ==
  /\ fnName = "none"
  /\ \E hs \in SUBSET TableHeights, params \in BetweenParams : BlocksBetweenHeights(hs, params)

SpecBetween == Init /\ [][BetweenNext]_vars

\* the pagination parameters of the event queries after getPaginationParams
EventParams ==
  [after : {NoArgument} \cup 1..MaxEventId, before : {NoArgument} \cup 1..MaxEventId,
   limit : {1, 2, 20}, order : {"ASC", "DESC"}]

\* a condition `AND e.id <op> $<param>` of a query text
Condition(op, param) == [op |-> op, param |-> param]
\* the rows a query returns: the ids that satisfy every condition against the
\* parameter it names, in the order asked, at most $1 of them
RunQuery(conditions, queryParams, order) ==
  LET holds(id, c) == IF c.op = ">" THEN id > queryParams[c.param] ELSE id < queryParams[c.param]
      ids == {id \in 1..MaxEventId : \A n \in 1..Len(conditions) : holds(id, conditions[n])}
  IN  Take(OrderBy(ids, order), queryParams[1])

\* getBlockEvents: before is tested first, both conditions name $3
GetBlockEvents(params) ==
  LET p1 == IF params.before # NoArgument THEN <<params.limit, 0, params.before>>
            ELSE <<params.limit, 0>>
      c1 == IF params.before # NoArgument THEN <<Condition(">", 3)>> ELSE <<>>
      p2 == IF params.after # NoArgument THEN Append(p1, params.after) ELSE p1
      c2 == IF params.after # NoArgument THEN Append(c1, Condition("<", 3)) ELSE c1
  IN  RunQuery(c2, p2, params.order)

\* getTransactionEvents: after is tested first, both conditions name $3
GetTransactionEvents(params) ==
  LET p1 == IF params.after # NoArgument THEN <<params.limit, 0, params.after>>
            ELSE <<params.limit, 0>>
      c1 == IF params.after # NoArgument THEN <<Condition("<", 3)>> ELSE <<>>
      p2 == IF params.before # NoArgument THEN Append(p1, params.before) ELSE p1
      c2 == IF params.before # NoArgument THEN Append(c1, Condition(">", 3)) ELSE c1
  IN  RunQuery(c2, p2, params.order)

\* getEventsWithQualifiedName: each condition names $${queryParams.length}
GetEventsWithQualifiedName(params) ==
  LET p0 == <<params.limit, 0, 0>>
      p1 == IF params.before # NoArgument THEN Append(p0, params.before) ELSE p0
      c1 == IF params.before # NoArgument THEN <<Condition(">", Len(p1))>> ELSE <<>>
      p2 == IF params.after # NoArgument THEN Append(p1, params.after) ELSE p1
      c2 == IF params.after # NoArgument THEN Append(c1, Condition("<", Len(p2))) ELSE c1
  IN  RunQuery(c2, p2, params.order)

\* the three queries of EventDbRepository with the same pagination
\* parameters, over the same Events rows
EventQueries(params) ==
  /\ fnName' = "events"
  /\ fnArgs' = params
  /\ fnResult' = [getBlockEvents |-> GetBlockEvents(params),
                  getTransactionEvents |-> GetTransactionEvents(params),
                  getEventsWithQualifiedName |-> GetEventsWithQualifiedName(params)]
  /\ UNCHANGED nonFnVars

EventsNext ==
  /\ fnName = "none"
  /\ \E params \in EventParams : EventQueries(params)

SpecEvents == Init /\ [][EventsNext]_vars

\* ------------------- getEventsWithQualifiedName: the numbered placeholders
HEIGHT_BATCH_SIZE == 200
\* the filters of a call, after getPaginationParams; NoArgument = not given
QualifiedNameParams ==
  [before : {NoArgument, 2}, after : {NoArgument, 3},
   requestKey : {NoArgument, 1}, blockHash : {NoArgument, 1}, chainId : {NoArgument, 0, 1},
   minHeight : {NoArgument, 5}, maxHeight : {NoArgument, 50, 300},
   minimumDepth : {NoArgument, 6}]
\* `if (x)` on an optional number or non-empty string
Given(x) == x # NoArgument /\ x # 0
\* a value of a parameter array, tagged with the filter it belongs to
Param(filter, value) == [filter |-> filter, value |-> value]
\* a `$n` of the SQL text, tagged with the filter whose condition holds it
Placeholder(filter, n) == [filter |-> filter, n |-> n]

\* queryParams.push(v); `$${queryParams.length}`
PushEventParam(q, filter, v) ==
  LET qp == Append(q.queryParams, Param(filter, v))
  IN  [q EXCEPT !.queryParams = qp,
                !.placeholders = Append(@, Placeholder(filter, Len(qp)))]
\* blockQueryParams.push(v); `$${blockQueryParams.length + queryParams.length}`
PushBlockParam(q, filter, v) ==
  LET bp == Append(q.blockQueryParams, Param(filter, v))
  IN  [q EXCEPT !.blockQueryParams = bp,
                !.placeholders = Append(@, Placeholder(filter, Len(bp) + Len(q.queryParams)))]
\* queryParams.push(v); `$${blockQueryParams.length + queryParams.length}`
PushHeightParam(q, filter, v) ==
  LET qp == Append(q.queryParams, Param(filter, v))
  IN  [q EXCEPT !.queryParams = qp,
                !.placeholders = Append(@, Placeholder(filter, Len(q.blockQueryParams) + Len(qp)))]

\* the condition building of getEventsWithQualifiedName: the placeholders of
\* the SQL text and the array [...queryParams, ...blockQueryParams]
BuildQualifiedNameQuery(params) ==
  LET q0 == [queryParams |-> <<Param("limit", 0), Param("module", 0), Param("name", 0)>>,
             blockQueryParams |-> <<>>,
             placeholders |-> <<Placeholder("limit", 1), Placeholder("module", 2),
                                Placeholder("name", 3)>>]
      q1 == IF Given(params.before) THEN PushEventParam(q0, "before", params.before) ELSE q0
      q2 == IF Given(params.after) THEN PushEventParam(q1, "after", params.after) ELSE q1
      q3 == IF Given(params.requestKey)
            THEN PushBlockParam(q2, "requestKey", params.requestKey) ELSE q2
      q4 == IF Given(params.blockHash)
            THEN PushBlockParam(q3, "blockHash", params.blockHash) ELSE q3
      q5 == IF Given(params.chainId) THEN PushBlockParam(q4, "chainId", params.chainId) ELSE q4
      minHeight == params.minHeight
      maxHeight == params.maxHeight
      fromHeight ==
        IF Given(minHeight) THEN minHeight
        ELSE IF Given(maxHeight) THEN maxHeight - HEIGHT_BATCH_SIZE ELSE 0
      toHeight ==
        IF Given(minHeight) /\ Given(maxHeight)
        THEN (IF maxHeight - minHeight > 100 THEN minHeight + HEIGHT_BATCH_SIZE ELSE 0)
        ELSE IF Given(minHeight) THEN minHeight + HEIGHT_BATCH_SIZE
        ELSE IF Given(maxHeight) THEN maxHeight ELSE 0
      q6 == IF fromHeight # 0 /\ toHeight # 0
            THEN PushHeightParam(PushHeightParam(q5, "fromHeight", fromHeight),
                                 "toHeight", toHeight)
            ELSE q5
      q7 == IF Given(params.minimumDepth)
            THEN PushHeightParam(q6, "minimumDepth", params.minimumDepth) ELSE q6
  IN  [placeholders |-> q7.placeholders,
       values |-> q7.queryParams \o q7.blockQueryParams]

QualifiedNameQuery(params) ==
  /\ fnName' = "getEventsWithQualifiedName"
  /\ fnArgs' = params
  /\ fnResult' = BuildQualifiedNameQuery(params)
  /\ UNCHANGED nonFnVars

QualifiedNameNext ==
  /\ fnName = "none"
  /\ \E params \in QualifiedNameParams : QualifiedNameQuery(params)

SpecQualifiedName == Init /\ [][QualifiedNameNext]_vars

\* ============================================ TransactionPayload resolvers
Null == "<NULL>"                   \* marks a column that is NULL
\* rows of Transactions joined with TransactionDetails, as the resolver reads them
TransactionRows ==
  {[continuation |-> cont, code |-> code, data |-> data, pactid |-> pactid,
    proof |-> proof, rollback |-> rollback, step |-> step] :
     cont \in {"", "{\"pactId\":\"p\"}"}, code \in {Null, "", "(coin.transfer)"},
     data \in {"{}", "{\"k\":1}"}, pactid \in {Null, "p"}, proof \in {Null, "proof"},
     rollback \in BOOLEAN, step \in {0, 1}}

\* the payload object built by the transaction_ resolver
TransactionPayloadOf(transaction) ==
  IF transaction.continuation = ""
  THEN [code |-> IF transaction.code \in {Null, ""} THEN "" ELSE transaction.code,
        data |-> transaction.data]
  ELSE [data |-> transaction.data, pactId |-> transaction.pactid, proof |-> transaction.proof,
        rollback |-> transaction.rollback, step |-> transaction.step]

\* TransactionPayload.__resolveType(obj): if (obj.code) ...
ResolveType(obj) ==
  IF "code" \in DOMAIN obj /\ obj.code # "" THEN "ExecutionPayload" ELSE "ContinuationPayload"

\* the transaction_ resolver builds the payload of a row and the server
\* resolves its type
ResolvePayload(transaction) ==
  /\ fnName' = "transaction_"
  /\ fnArgs' = transaction
  /\ fnResult' = [payload |-> TransactionPayloadOf(transaction),
                  type |-> ResolveType(TransactionPayloadOf(transaction))]
  /\ UNCHANGED nonFnVars

PayloadNext ==
  /\ fnName = "none"
  /\ \E transaction \in TransactionRows : ResolvePayload(transaction)

SpecPayload == Init /\ [][PayloadNext]_vars

\* ================================================= saveBlock: DispatchInfo
MaxEventsCreated == 3   \* events returned by processPayloadKey for one block
\* the rows processPayloadKey returns; an empty requestkey stands for a row
\* without one
EventRows ==
  {[requestkey |-> k, module |-> mod, name |-> n] :
     k \in {"", "k1", "k2"}, mod \in {"coin", "free.dex"}, n \in {"TRANSFER"}}
RECURSIVE SeqsUpTo(_, _)
SeqsUpTo(S, n) ==
  IF n = 0 THEN {<<>>}
  ELSE SeqsUpTo(S, n - 1) \cup {Append(q, x) : q \in {t \in SeqsUpTo(S, n - 1) : Len(t) = n - 1}, x \in S}
CreatedBlocks ==
  {[hash |-> h, chainId |-> c, height |-> 7] : h \in Hashes, c \in {0, 19}}

\* variant: Array.from without the Set
KeepAll(values) == values
\* Array.from(new Set(values)): the first occurrence of each value, in order
RECURSIVE ArrayFromSet(_)
ArrayFromSet(values) ==
  IF values = <<>> THEN <<>>
  ELSE LET front == ArrayFromSet(SubSeq(values, 1, Len(values) - 1))
           last == values[Len(values)]
       IN  IF \E n \in 1..Len(front) : front[n] = last THEN front ELSE Append(front, last)

\* values.filter(Boolean) over strings: the empty string is dropped
RECURSIVE FilterBoolean(_)
FilterBoolean(values) ==
  IF values = <<>> THEN <<>>
  ELSE (IF Head(values) = "" THEN <<>> ELSE <<Head(values)>>) \o FilterBoolean(Tail(values))

\* n.toString() for 0 <= n, as the sequence of its decimal digits
RECURSIVE NumberToString(_)
NumberToString(n) ==
  IF n < 10 THEN <<n>> ELSE Append(NumberToString(n \div 10), n % 10)

\* `${t.module}.${t.name}`
QualifiedName(t) == <<t.module, t.name>>

\* the value saveBlock returns after tx.commit()
SaveBlockReturn(createdBlock, eventsCreated) ==
  LET uniqueRequestKeys ==
        ArrayFromSet(FilterBoolean([n \in 1..Len(eventsCreated) |-> eventsCreated[n].requestkey]))
      uniqueQualifiedEventNames ==
        ArrayFromSet([n \in 1..Len(eventsCreated) |-> QualifiedName(eventsCreated[n])])
  IN  [hash |-> createdBlock.hash,
       chainId |-> NumberToString(createdBlock.chainId),
       height |-> createdBlock.height,
       requestKeys |-> uniqueRequestKeys,
       qualifiedEventNames |-> uniqueQualifiedEventNames]

\* saveBlock from the resolution of processPayloadKey to its return
SaveBlockReturns(createdBlock, eventsCreated) ==
  /\ fnName' = "saveBlock"
  /\ fnArgs' = [createdBlock |-> createdBlock, eventsCreated |-> eventsCreated]
  /\ fnResult' = SaveBlockReturn(createdBlock, eventsCreated)
  /\ UNCHANGED nonFnVars

DispatchNext ==
  /\ fnName = "none"
  /\ \E createdBlock \in CreatedBlocks, eventsCreated \in SeqsUpTo(EventRows, MaxEventsCreated) :
       SaveBlockReturns(createdBlock, eventsCreated)

SpecDispatch == Init /\ [][DispatchNext]_vars

Next ==
  \/ ArchiveNext \/ StreamNext \/ GapNext \/ RetryNext \/ GuardNext
  \/ NewBlockNext \/ PaginationNext
  \/ DispatchNext \/ PayloadNext \/ DepthNext \/ EventsNext \/ QualifiedNameNext
  \/ BetweenNext \/ OriginNext

Spec == Init /\ [][Next]_vars

\* ================================================================= claims
\* the step of call p that commits its transaction
IsCommitStep(p) == pkPc[p] = "commit" /\ pkOutcome'[p] = "commit"
QueueCount(h, t) ==
  Cardinality({n \in 1..Len(publishQueue) :
                 publishQueue[n].hash = h /\ publishQueue[n].by = t})
QueueOf(t) == {n \in 1..Len(publishQueue) : publishQueue[n].by = t}

\* C1: a processKeys call that ended in its catch block has persisted none of
\* the blocks (or their payload rows) it materialised, holds nothing in its
\* transaction any more, and did not write the stored cursor.
C1_RollbackPersistsNothing ==
  \A p \in Calls :
    pkOutcome[p] = "rollback" =>
      /\ \A r \in Blocks \cup PayloadRows : r.by # PK(p)
      /\ txBlocks[PK(p)] = {} /\ txRows[PK(p)] = {} /\ txCursor[p] = <<>>
      /\ cursorBy # PK(p)
\* a call rolled back after a whole page of inserts (the failure came with a
\* later page, the save or the commit) and nothing is persisted
C1_Witness ==
  \E p \in Calls :
    pkOutcome[p] = "rollback" /\ totalKeysProcessed[p] > 0 /\ Blocks = {}

\* C2: the committed cursor names only keys whose blocks are committed: every
\* key up to the stored cursor key has its block among the committed rows,
\* the cursor was written by a call that committed, and a call writes the
\* cursor into its transaction only when no processKey of a page is pending.
C2_CursorNamesCommittedBlocks ==
  /\ \A k \in Objects : k <= cursorKey => HashOfKey(k) \in CommittedHashes
  /\ \A p \in Calls :
       /\ cursorBy = PK(p) => pkOutcome[p] = "commit"
       /\ txCursor[p] # <<>> => pending[p] = {} /\ pkPc[p] \in {"commit", "rollback"}
\* a call committed the cursor after two pages, with blocks it inserted itself
C2_Witness ==
  \E p \in Calls :
    /\ cursorBy = PK(p) /\ iterationCount[p] = 2 /\ cursorKey = NumKeys
    /\ \E r \in Blocks : r.by = PK(p)

\* C3: the step that commits a processKeys call which processed at least one
\* non-empty page leaves the stored cursor key equal to the greatest key the
\* call has listed.
C3_CursorIsLastListedKey ==
  [][\A p \in Calls :
       (IsCommitStep(p) /\ iterationCount[p] > 0) => cursorKey' = Max(listed[p])]_vars
\* a call committed one page of more than one key and the cursor is its last key
C3_Witness ==
  \E p \in Calls :
    /\ pkOutcome[p] = "commit" /\ iterationCount[p] = 1 /\ Cardinality(listed[p]) > 1
    /\ cursorBy = PK(p) /\ cursorKey = Max(listed[p])

\* C4 (as claimed): over any sequence of processKeys calls, overlapping ones
\* included, the committed cursor key never moves to a smaller key and
\* strictly increases when a call commits at least one non-empty page.
C4_CursorMonotonicAllCalls ==
  [][/\ cursorKey' >= cursorKey
     /\ \A p \in Calls :
          (IsCommitStep(p) /\ iterationCount[p] > 0) => cursorKey' > cursorKey]_vars
\* C4 (amended): the cursor key changes only in the commit of a processKeys
\* call; when that call did not overlap in time with another call for the
\* same (network, chainId, prefix), the key does not decrease, and strictly
\* increases if the call processed at least one non-empty page.
C4_CursorMonotonicSequentialCalls ==
  [][/\ cursorKey' # cursorKey => \E p \in Calls : IsCommitStep(p)
     /\ \A p \in Calls :
          (IsCommitStep(p) /\ ~overlapped[p]) =>
            /\ cursorKey' >= cursorKey
            /\ iterationCount[p] > 0 => cursorKey' > cursorKey]_vars
\* two calls, one after the other, each committed a non-empty page
C4_Witness ==
  \E p, q \in Calls :
    /\ p # q /\ ~overlapped[p] /\ ~overlapped[q]
    /\ pkOutcome[p] = "commit" /\ pkOutcome[q] = "commit"
    /\ iterationCount[p] > 0 /\ iterationCount[q] > 0
    /\ cursorBy = PK(q) /\ cursorKey = NumKeys

\* C5 (as claimed): a processKeys call that ended in rollback has handed no
\* DispatchInfo to addPublishEvents.
C5_RollbackPublishesNothing ==
  \A p \in Calls : pkOutcome[p] = "rollback" => QueueOf(PK(p)) = {}

\* rows of the StreamingError table inserted by the listener run of event i
ErrorRowsOf(i) == {n \in 1..Len(StreamingErrors) : StreamingErrors[n].by = i}
HandlerEnded(i) == hPc[i] = "done"

\* C6 (as claimed): every committed materialisation has exactly one
\* DispatchInfo for its block on the publisher queue, and every rolled-back
\* one has none: for the blocks of a committed processKeys call, for a
\* committed saveBlock of the Tip Streamer, and zero for a processKeys call or
\* a saveBlock that rolled back.
C6_OneDispatchPerCommit ==
  /\ \A p \in Calls :
       /\ pkOutcome[p] = "commit" =>
            \A r \in Blocks : r.by = PK(p) => QueueCount(r.hash, PK(p)) = 1
       /\ pkOutcome[p] = "rollback" => QueueOf(PK(p)) = {}
  /\ \A i \in Handlers :
       /\ hOutcome[i] = "saved" => QueueCount(evHash[i], SB(i)) = 1
       /\ blockData[i] = NullResult => QueueOf(SB(i)) = {}

C9_OneSaveBlockPerHash ==
  /\ \A h \in Hashes : saveCalls[h] <= 1
  /\ \A i \in Handlers :
       hOutcome[i] = "dropped" =>
         /\ blockData[i] = NoResult
         /\ \A r \in Blocks \cup PayloadRows : r.by # SB(i)
         /\ txBlocks[SB(i)] = {} /\ txRows[SB(i)] = {}
         /\ ErrorRowsOf(i) = {} /\ QueueOf(SB(i)) = {}
\* a repeated hash was dropped while the run for its first delivery was still
\* inside saveBlock
C9_Witness ==
  \E i, j \in Handlers :
    /\ i # j /\ evHash[i] = evHash[j]
    /\ hOutcome[j] = "dropped" /\ hPc[i] \in {"begin", "create", "payload", "commit"}

C11_NoTipBlockDropped ==
  \A i \in Handlers :
    (HandlerEnded(i) /\ \A j \in Handlers : evHash[j] = evHash[i] => hPc[j] \in {"idle", "done"})
      => \/ evHash[i] \in CommittedHashes
         \/ \E n \in 1..Len(StreamingErrors) : StreamingErrors[n].hash = evHash[i]

\* C12 (as claimed): when a saveBlock and a processKeys call materialise the
\* same hash concurrently (the hash was not persisted when saveBlock was
\* called, the call listed its key and committed), exactly one Block row of
\* the hash is persisted and the attempt that lost left nothing in the
\* store: no Block row, no Transaction/Event row, no StreamingError row, no
\* DispatchInfo.
C12_ConcurrentLoserIsNoOp ==
  \A i \in Handlers, p \in Calls :
    LET h == evHash[i]
    IN  ( /\ HandlerEnded(i) /\ blockData[i] # NoResult /\ ~persistedAtCall[i]
          /\ pkOutcome[p] = "commit"
          /\ \E k \in listed[p] : HashOfKey(k) = h )
        => /\ Cardinality({r \in Blocks : r.hash = h}) = 1
           /\ [hash |-> h, by |-> PK(p)] \in Blocks =>
                /\ \A r \in PayloadRows : r.by # SB(i)
                /\ ErrorRowsOf(i) = {}
                /\ QueueOf(SB(i)) = {}
           /\ [hash |-> h, by |-> SB(i)] \in Blocks =>
                /\ \A r \in PayloadRows : r.hash = h => r.by # PK(p)
                /\ QueueCount(h, PK(p)) = 0

\* no height of any chain is missing
AllFilled == \A c \in Chains : missingHeights[c] = {}

C14_NoTickAfterShutdown ==
  /\ [][/\ isTriggered => ~(dPc # "tick" /\ dPc' = "tick")
        /\ (~isTriggered /\ isTriggered') =>
             (dPc' = dPc /\ cPc' = cPc /\ fetches' = fetches)
        /\ (dPc # "exited" /\ dPc' = "exited") =>
             (isTriggered /\ dPc \in {"sleep", "sleepErr"})]_vars
  /\ isTriggered ~> (dPc = "exited" /\ fetches = {})
\* the signal arrived while a tick with fetches in flight was in progress
C14_Witness ==
  isTriggered /\ dPc = "tick" /\ \E f \in fetches : f.cur

\* C15: a tick that throws puts the daemon to sleep in its catch; from there
\* the daemon goes on to the next tick, or ends when the shutdown signal is
\* triggered; it never ends without the signal.
C15_TickErrorNeverEndsDaemon ==
  [][/\ (dPc = "tick" /\ \E c \in Chains : cPc[c] # "failed" /\ cPc'[c] = "failed")
          => dPc' = "sleepErr"
     /\ (dPc = "sleepErr" /\ dPc' # "sleepErr")
          => dPc' = (IF isTriggered THEN "exited" ELSE "tick")
     /\ (dPc # "exited" /\ dPc' = "exited") => isTriggered]_vars
\* a tick threw while fetches were in flight, and the next tick is running
C15_Witness ==
  /\ ~isTriggered /\ dPc = "tick"
  /\ \E f \in fetches : ~f.cur

SweepEnded == rPc = "done" /\ errors # <<>>
RecordedRange(e) ==
  \E r \in SyncErrors :
    r.chainId = e.chainId /\ r.fromHeight = e.fromHeight /\ r.toHeight = e.toHeight

C17_FailedBatchRolledBack ==
  /\ [](\A r \in Runs :
          gOutcome[r] = "aborted" =>
            /\ gPc[r] = "done" /\ txGuards[r] = {}
            /\ \A g \in Guards : g.run = r => g.balanceId <= currentId[r]
            /\ \A n \in 1..Len(rows[r]) : rows[r][n] > currentId[r]
            /\ \A a \in limitActive : a[1] # r)
  /\ [][\A r \in Runs :
          /\ (gPc[r] \in {"bulk", "commit", "rollback"} /\ gPc'[r] # gPc[r]
               /\ gPc'[r] \in {"rollback", "done"}) => Guards' = Guards
          /\ gOutcome[r] = "aborted" =>
               (gPc'[r] = gPc[r] /\ rows'[r] = rows[r] /\ currentId'[r] = currentId[r]
                /\ txGuards'[r] = {})]_vars
\* the second batch of a run failed: the rows of its first batch are
\* committed, those of the second are not, and a Balances row is left unread
C17_Witness ==
  \E r \in Runs :
    /\ gOutcome[r] = "aborted" /\ currentId[r] > 0 /\ currentId[r] < NumBalances
    /\ \A b \in Balances :
         [balanceId |-> b, run |-> r] \in Guards <=> b <= currentId[r]

\* C18: at every moment at most CONCURRENCY_LIMIT getGuardsFromBalances calls
\* are in flight, over all batches and all runs.
C18_FetchesWithinLimit == Cardinality(limitActive) <= CONCURRENCY_LIMIT
\* two overlapping runs: the limiter is full and a call of another run waits
C18_Witness ==
  /\ Cardinality(limitActive) = CONCURRENCY_LIMIT
  /\ \E a \in limitActive, n \in 1..Len(limitQueue) : limitQueue[n][1] # a[1]

\* C19 (as claimed): a POST /new-block from an IP outside 10.0.2.0/24 and
\* 10.0.3.0/24 is answered 403 without its body having been validated, one
\* from an allowed IP whose body is no DispatchInfo is answered 400, and in
\* both cases nothing is published.
C19_DeniedBeforeValidation ==
  reqPc = "responded" =>
    /\ ~IpFilterPasses(reqIp) =>
         (resStatus = 403 /\ ~validated /\ published = <<>>)
    /\ (IpFilterPasses(reqIp) /\ reqBody \notin ValidBodies) =>
         (resStatus = 400 /\ published = <<>>)

PagePairs == {<<"after", "before">>, <<"first", "last">>, <<"before", "first">>,
              <<"after", "last">>}
TopField(operation) == operation.selectionSet.selections[1]
NestedField(operation) == TopField(operation).selectionSet.selections[1]
\* the pagination arguments a field is given, as literals or as $n
FieldSupplies(field) == {a \in PageArgs : field.arguments[a] # NoArg}
\* the pagination arguments the operation is given anywhere
OperationSupplies(operation) ==
  FieldSupplies(TopField(operation)) \cup FieldSupplies(NestedField(operation))
    \cup {a \in PageArgs : operation.variables[a] # Undefined}

\* C20 (as claimed): an operation one of whose fields is given both members
\* of one of the pairs (after, before), (first, last), (before, first),
\* (after, last) is rejected, and an operation that is given both members of
\* none of the pairs, over all its arguments and variables, is accepted.
C20_IncompatiblePairsRejected ==
  pvResult # "none" =>
    /\ (\E pair \in PagePairs, field \in {TopField(pvOperation), NestedField(pvOperation)} :
          {pair[1], pair[2]} \subseteq FieldSupplies(field))
         => pvResult = "rejected"
    /\ (\A pair \in PagePairs : ~({pair[1], pair[2]} \subseteq OperationSupplies(pvOperation)))
         => pvResult = "accepted"

\* C21 (as claimed): for processKeys calls running on different chains, the
\* DispatchInfo records are handed to the publisher in the order in which
\* their transactions commit: when a call commits, each of its records comes
\* in the queue after every record of a call that committed earlier.
C21_PublishedInCommitOrder ==
  [][\A p, q \in Calls :
       (p # q /\ IsCommitStep(p) /\ pkOutcome[q] = "commit") =>
         \A m \in QueueOf(PK(p)), n \in QueueOf(PK(q)) : n < m]_vars

\* the values of a sequence
Range(q) == {q[n] : n \in 1..Len(q)}
NoDuplicates(q) == \A m, n \in 1..Len(q) : m # n => q[m] # q[n]

\* C24: the DispatchInfo saveBlock returns carries the hash, the chainId (as
\* its decimal string) and the height of the created block; its requestKeys
\* and qualifiedEventNames have no duplicates and hold exactly the request
\* keys (of the rows that have one) and the module.name names of the events
\* created for the block.
C24_DispatchInfoOfBlock ==
  fnName = "saveBlock" =>
    LET events == fnArgs.eventsCreated
    IN  /\ fnResult.hash = fnArgs.createdBlock.hash
        /\ ParseInt(fnResult.chainId) = fnArgs.createdBlock.chainId
        /\ fnResult.height = fnArgs.createdBlock.height
        /\ NoDuplicates(fnResult.requestKeys)
        /\ NoDuplicates(fnResult.qualifiedEventNames)
        /\ Range(fnResult.requestKeys) =
             {events[n].requestkey : n \in 1..Len(events)} \ {""}
        /\ Range(fnResult.qualifiedEventNames) =
             {<<events[n].module, events[n].name>> : n \in 1..Len(events)}
\* a block on chain 19 with three events, two of them of the same request key
\* and the same qualified name
C24_Witness ==
  /\ fnName = "saveBlock"
  /\ fnArgs.createdBlock.chainId = 19
  /\ Len(fnArgs.eventsCreated) = 3
  /\ Len(fnResult.requestKeys) = 2 /\ Len(fnResult.qualifiedEventNames) = 2

\* a step of call p in which a listing of the object store returns
IsListingStep(p) == pkPc[p] = "list" /\ pkPc'[p] \in {"page", "save"}

\* C22 (as claimed): a processKeys call lists the object store only while no
\* listing has come back empty and fewer than maxIterations non-empty pages
\* have been processed, for every supplied maxIterations, 0 included.
C22_StopsAtMaxIterations ==
  [][\A p \in Calls :
       IsListingStep(p) =>
         /\ iterationCount[p] = 0 \/ keys[p] # <<>>
         /\ pkMaxIterations[p] # NoLimit => iterationCount[p] < pkMaxIterations[p]]_vars

\* C23: a processKeys call whose first listing returned no keys materialises
\* no key and publishes nothing, and the step that commits it stores the key
\* the call found, which leaves the stored cursor key as it was (when no
\* other call for the same prefix ran during the call).
C23_EmptyListingNoAdvance ==
  /\ [](\A p \in Calls :
          (listed[p] = {} /\ pkPc[p] \in {"save", "commit", "rollback", "done"}) =>
            /\ txBlocks[PK(p)] = {} /\ txRows[PK(p)] = {}
            /\ \A r \in Blocks \cup PayloadRows : r.by # PK(p)
            /\ QueueOf(PK(p)) = {}
            /\ totalKeysProcessed[p] = 0)
  /\ [][\A p \in Calls :
          (IsCommitStep(p) /\ listed[p] = {}) =>
            /\ cursorKey' = startAfter[p]
            /\ ~overlapped[p] => cursorKey' = cursorKey]_vars
\* a call found the cursor at the last key, listed nothing and committed
C23_Witness ==
  \E p \in Calls :
    /\ pkOutcome[p] = "commit" /\ listed[p] = {}
    /\ cursorBy = PK(p) /\ cursorKey = NumKeys

\* C25 (as claimed): a transaction payload is resolved as ExecutionPayload
\* exactly when it has a code field, as ContinuationPayload otherwise; so
\* every payload the transaction_ resolver builds as an ExecutionPayload is
\* resolved as one, whatever its code.
C25_ResolvedByPresenceOfCode ==
  fnName = "transaction_" =>
    (fnResult.type = "ExecutionPayload" <=> "code" \in DOMAIN fnResult.payload)

\* C26 (as claimed): getBlocksFromDepth(minimumDepth) returns only blocks
\* with at least minimumDepth confirmations: the height of the tip of the
\* block's chain minus the block's height is at least minimumDepth.
C26_OnlyBlocksAtDepth ==
  fnName = "getBlocksFromDepth" =>
    \A n \in 1..Len(fnResult) :
      fnArgs.tips[fnResult[n].chainId] - fnResult[n].height >=
        (IF fnArgs.params.minimumDepth = NoArgument THEN 0 ELSE fnArgs.params.minimumDepth)

\* C27 (as claimed): getBlockEvents returns only events with id > after when
\* an after cursor is given and only events with id < before when a before
\* cursor is given, and getTransactionEvents and getEventsWithQualifiedName
\* filter in the same way: they return the same events.
C27_CursorDirection ==
  fnName = "events" =>
    /\ \A n \in 1..Len(fnResult.getBlockEvents) :
         /\ fnArgs.after # NoArgument => fnResult.getBlockEvents[n] > fnArgs.after
         /\ fnArgs.before # NoArgument => fnResult.getBlockEvents[n] < fnArgs.before
    /\ fnResult.getTransactionEvents = fnResult.getBlockEvents
    /\ fnResult.getEventsWithQualifiedName = fnResult.getBlockEvents


\* C30 (as claimed): a StreamingError row for hash H is created only when no
\* Block row with hash H is persisted at that time: the step of a listener run
\* that inserts the row is taken with the hash of its event absent from the
\* Block table, also when the event is a redelivery after
\* blocksAlreadyReceived was cleared.
C30_RowOnlyForUnpersistedBlock ==
  [][\A i \in Handlers :
       (hPc[i] = "error" /\ hPc'[i] = "done" /\ StreamingErrors' # StreamingErrors)
         => evHash[i] \notin CommittedHashes]_vars


\* the messages published on a channel, in order
RECURSIVE OnChannel(_, _)
OnChannel(msgs, channel) ==
  IF msgs = <<>> THEN <<>>
  ELSE (IF Head(msgs).channel = channel THEN <<Head(msgs)>> ELSE <<>>)
         \o OnChannel(Tail(msgs), channel)

\* C29: a valid POST /new-block from an allowed IP publishes exactly one
\* NEW_BLOCKS message and one NEW_BLOCKS_FROM_DEPTH message of the block,
\* exactly one EVENTS message per entry of qualifiedEventNames and exactly one
\* TRANSACTION message per entry of requestKeys; the success response is sent
\* only when every EVENTS and TRANSACTION publish has resolved.
C29_PublishesThenResponds ==
  (reqPc \in {"publish", "responded", "failed"} /\ validated /\ reqBody \in ValidBodies) =>
    LET d == reqBody
        events == OnChannel(published, "EVENTS_EVENT")
        transactions == OnChannel(published, "TRANSACTION_EVENT")
    IN  /\ IpFilterPasses(reqIp)
        /\ OnChannel(published, "NEW_BLOCKS_EVENT") =
             << [channel |-> "NEW_BLOCKS_EVENT", hash |-> d.hash, chainId |-> d.chainId] >>
        /\ OnChannel(published, "NEW_BLOCKS_FROM_DEPTH_EVENT") =
             << [channel |-> "NEW_BLOCKS_FROM_DEPTH_EVENT", hash |-> d.hash,
                 chainId |-> d.chainId, height |-> d.height] >>
        /\ [n \in 1..Len(events) |-> events[n].qualifiedEventName] = d.qualifiedEventNames
        /\ \A n \in 1..Len(events) :
             events[n].hash = d.hash /\ events[n].chainId = d.chainId
               /\ events[n].height = d.height
        /\ [n \in 1..Len(transactions) |-> transactions[n].requestKey] = d.requestKeys
        /\ \A n \in 1..Len(transactions) : transactions[n].chainId = d.chainId
        /\ Len(published) = 2 + Len(d.qualifiedEventNames) + Len(d.requestKeys)
        /\ resStatus = 200 => awaited = {}
        /\ awaited # {} /\ reqPc # "failed" => resStatus = 0

\* a request with two event names and two request keys has been answered
C29_Witness ==
  /\ reqPc = "responded" /\ resStatus = 200
  /\ Len(reqBody.qualifiedEventNames) = 2 /\ Len(reqBody.requestKeys) = 2
  /\ Len(published) = 6


C31_ReturnsCommittedKeys ==
  \A p \in Calls :
    (pkPc[p] = "done" /\ pkOutcome[p] \in {"commit", "rollback"}) =>
      /\ totalKeysProcessed[p] = Cardinality({r \in Blocks : r.by = PK(p)})
      /\ pkOutcome[p] = "rollback" => totalKeysProcessed[p] = 0

\* a sequence of ids in strictly ascending order
StrictlyAscending(seq) == \A m, n \in 1..Len(seq) : m < n => seq[m] < seq[n]

\* C32: within one backfillGuards run the batches are read in strictly
\* ascending Balance id: currentId strictly increases with each committed
\* batch, every Balance row is handed to a fetch at most once, a run whose
\* loop ended on an empty SELECT has gone through every Balance row, and
\* every started run ends.
C32_AscendingBatchesTerminate ==
  /\ [][\A r \in Runs :
          (gPc[r] = "commit" /\ gPc'[r] = "select") => currentId'[r] > currentId[r]]_vars
  /\ [](\A r \in Runs :
          /\ StrictlyAscending(handed[r])
          /\ gOutcome[r] = "finished" =>
               {handed[r][n] : n \in 1..Len(handed[r])} = Balances)
  /\ \A r \in Runs : (gPc[r] # "off") ~> (gPc[r] = "done")

\* a run has ended on an empty SELECT after more than one committed batch
C32_Witness ==
  \E r \in Runs :
    /\ gOutcome[r] = "finished"
    /\ Len(handed[r]) = NumBalances
    /\ currentId[r] = NumBalances
    /\ NumBalances > BatchLimit

C34_BackfillNeverRejects ==
  \A r \in Runs : gPc[r] = "done" => gOutcome[r] \in {"finished", "aborted"}

C36_PlaceholdersNameTheirValues ==
  fnName = "getEventsWithQualifiedName" =>
    \A i \in 1..Len(fnResult.placeholders) :
      LET ph == fnResult.placeholders[i]
      IN  /\ ph.n \in 1..Len(fnResult.values)
          /\ fnResult.values[ph.n].filter = ph.filter

\* C37 (as claimed): getBlocksBetweenHeights returns only blocks between the
\* start and end heights: for every startHeight and every supplied endHeight
\* each returned block has startHeight <= height <= endHeight.
C37_OnlyBlocksBetweenHeights ==
  fnName = "getBlocksBetweenHeights" =>
    \A n \in 1..Len(fnResult) :
      /\ fnResult[n].height >= fnArgs.params.startHeight
      /\ fnArgs.params.endHeight # NoArgument =>
           fnResult[n].height <= fnArgs.params.endHeight

\* C38 (as claimed): isAllowedOrigin returns true for every origin whose
\* hostname is localhost, for every origin that exactly matches one of the two
\* configured allowed origins whatever the other configured value is (unset
\* included), and for subdomains of kadena.io when kadena.io is an allowed
\* origin; it returns false for every other origin.
C38_AllowedOrigins ==
  fnName = "isAllowedOrigin" =>
    LET origin == fnArgs.origin
        configured == {u \in {fnArgs.API_GATEWAY_URL, fnArgs.API_KADENA_URL} : u.kind = "url"}
    IN  fnResult =
          /\ origin.kind = "url"
          /\ \/ origin.hostname = <<"localhost">>
             \/ \E allowed \in configured :
                  \/ UrlOrigin(origin) = UrlOrigin(allowed)
                  \/ allowed.hostname = <<"kadena", "io">>
                       /\ EndsWithKadenaIo(origin.hostname)

================================================================
